---- MODULE Spec2Model ----
(***************************************************************************)
(* TextLayoutEngine (assets/text-layout-engine.js): the adaptive font-size *)
(* search of fitText, the horizontal two-line breaker, the vertical text   *)
(* normalizer, the fit checker, the position calculator and the Printful   *)
(* export.                                                                 *)
(*                                                                         *)
(* Numbers.  Font sizes are whole pixels.  Every other length is kept in   *)
(* thousandths of a pixel, so that the factors 1.1, 0.85, 1.6, 0.10 and    *)
(* the halving of the centring are exact integers; inches are kept in      *)
(* 1/100000 of an inch and points in thousandths of a point.  With the    *)
(* constructor's configuration no height comparison of the code falls on   *)
(* an exact boundary, so the scaled integer comparisons agree with the     *)
(* floating-point ones.                                                    *)
(*                                                                         *)
(* NaN, which the code's arithmetic yields for an orientation that names a  *)
(* property canvasMapping inherits, is one reserved integer; sums,          *)
(* differences and comparisons go through Add, Sub, Half, Le and Gt where   *)
(* an operand can be NaN.                                                   *)
(*                                                                         *)
(* Strings are sequences of characters; a character outside ASCII is       *)
(* written by its code point ("U30FC" is the prolonged-sound mark).        *)
(*                                                                         *)
(* The string primitives are written  Once({ e : s \in {str} }), which     *)
(* is e with s bound to the value of str: the argument is evaluated once.  *)
(***************************************************************************)
EXTENDS Integers, Sequences, FiniteSets, TLC

VARIABLES
  engine,          \* the TextLayoutEngine object: canvasWidth, canvasHeight, config
  measurer,        \* the measuring context's measureText: advance per family
  ctxFont,         \* ctx.font, the font the context was last set to
  pc,              \* position of the fitText call in progress
  args,            \* the arguments of the call in progress / last call
  textArea,        \* local textArea of fitText
  currentFontSize, \* local currentFontSize of fitText
  bestLayout,      \* local bestLayout of fitText (NoLayout models null)
  attempts,        \* local attempts of fitText
  forceTwoLines,   \* local forceTwoLines of fitText
  tried,           \* history: the candidates the loop built, in order
  result,          \* what the last call returned (NoLayout before any)
  exported,        \* what exportForPrintful returned for result (NotExported: not called)
  ref,             \* one remembered earlier call, its result, and how many
                   \* calls (0, 1, 2 or more) were made after it
  probe,           \* the last direct call of one of the engine's other methods:
                   \* its name, its arguments and what it returned
  boot,            \* the bootstrap of the designer script: what it waits for and has done
  state,           \* the TShirtDesigner object's this.state (NoDesigner: not constructed)
  els,             \* the page elements the designer reads and writes
  tasks,           \* the designer's asynchronous functions that are waiting, and for what
  submitted        \* the last submit of the add-to-cart form and how it ended

\* the page the designer lives on
page == <<boot, state, els, tasks, submitted>>

vars == <<engine, measurer, ctxFont, pc, args, textArea, currentFontSize,
          bestLayout, attempts, forceTwoLines, tried, result, exported, ref, probe, page>>

\* the locals of a fitText call
locals == <<args, textArea, currentFontSize, bestLayout, attempts, forceTwoLines, tried>>

-----------------------------------------------------------------------------
(* Bounds of the model *)

\* texts of up to MaxLen characters over Alphabet are enumerated in full
MaxLen == 4
\* besides them, single words of MaxLen+1 .. MaxRun letters
MaxRun == 25
\* the texts of the repeated-call specification have up to IdemLen characters
IdemLen == 3
\* the texts given to the line breaker alone have up to BreakLen characters
BreakLen == 6
\* the texts given to the vertical normalizer alone have up to CleanLen characters
CleanLen == 3

-----------------------------------------------------------------------------
(* Program constants: the constructor's configuration *)

defaultCanvasWidth == 600
defaultCanvasHeight == 600
printWidthInches == 12
printHeightInches == 16
printDpi == 300
mappingX == 200
mappingY == 78
mappingWidth == 200
mappingHeight == 270
marginPx == 3
baseFontSize == 40
minFontSize == 12
scaleStep == 2

\* a length of n whole pixels, in thousandths of a pixel
Px(n) == n * 1000

\* The number NaN, which arithmetic on undefined produces (a property read
\* from an object that does not have it is undefined).  A sum or difference
\* with a NaN operand is NaN, and every comparison with NaN is false.
NaN == -999999999
IsNaN(v) == v = NaN
Add(a, b) == IF IsNaN(a) \/ IsNaN(b) THEN NaN ELSE a + b
Sub(a, b) == IF IsNaN(a) \/ IsNaN(b) THEN NaN ELSE a - b
Half(a) == IF IsNaN(a) THEN NaN ELSE a \div 2
Le(a, b) == ~IsNaN(a) /\ ~IsNaN(b) /\ a <= b
Gt(a, b) == ~IsNaN(a) /\ ~IsNaN(b) /\ a > b

\* this.config as the constructor builds it; lineSpacing 1.1,
\* charSpacingMultiplier 0.85 and columnMarginFactor 0.3 are in thousandths
ConstructorConfig ==
  [ printArea |-> [widthInches |-> printWidthInches, heightInches |-> printHeightInches,
                   dpi |-> printDpi],
    canvasMapping |->
      [horizontal |-> [x |-> Px(mappingX), y |-> Px(mappingY),
                       width |-> Px(mappingWidth), height |-> Px(mappingHeight)],
       vertical   |-> [x |-> Px(mappingX), y |-> Px(mappingY),
                       width |-> Px(mappingWidth), height |-> Px(mappingHeight)]],
    margins |-> [top |-> Px(marginPx), bottom |-> Px(marginPx),
                 left |-> Px(marginPx), right |-> Px(marginPx)],
    baseFontSize |-> baseFontSize,
    minFontSize |-> minFontSize,
    scaleStep |-> scaleStep,
    lineSpacing |-> 1100,
    verticalSpacing |-> [charSpacingMultiplier |-> 850, columnMarginFactor |-> 300] ]

-----------------------------------------------------------------------------
(* Strings *)

\* a letter, a blank, an ASCII hyphen, the prolonged-sound mark
Alphabet == {"a", " ", "-", "U30FC"}

\* the characters the regular expression \s matches
IsSpace(c) == c \in {" ", "U0009", "U3000"}

\* the character class of cleanTextForVertical's second replace
IsHyphenLike(c) ==
  c \in {"U30FC", "-", "U2012", "U2013", "U2014", "U2212", "UFE58", "UFE63", "UFF0D"}

\* the replacement character of cleanTextForVertical, the full-width vertical line
VerticalBar == "UFF5C"

\* the value of a missing text argument (undefined / null)
Undefined == <<"undefined">>

\* /\s+/.test(text)
HasSpace(s) == \E i \in 1..Len(s) : IsSpace(s[i])

\* the element of a one-element set
Once(S) == CHOOSE r \in S : TRUE

\* the index of the first non-blank character (Len(s) + 1 when there is none)
FirstNonSpace(s) ==
  CHOOSE i \in 1..(Len(s) + 1) :
    /\ \A j \in 1..(i - 1) : IsSpace(s[j])
    /\ i = Len(s) + 1 \/ ~IsSpace(s[i])

\* the index of the last non-blank character (0 when there is none)
LastNonSpace(s) ==
  CHOOSE i \in 0..Len(s) :
    /\ \A j \in (i + 1)..Len(s) : IsSpace(s[j])
    /\ i = 0 \/ ~IsSpace(s[i])

\* String.prototype.trim
Trim(str) == Once({SubSeq(s, FirstNonSpace(s), LastNonSpace(s)) : s \in {str}})

\* the indices at which a word starts
WordStarts(s) == {i \in 1..Len(s) : ~IsSpace(s[i]) /\ (i = 1 \/ IsSpace(s[i - 1]))}

\* the index at which the word starting at i ends
WordEnd(s, i) ==
  CHOOSE j \in i..Len(s) :
    /\ \A k \in i..j : ~IsSpace(s[k])
    /\ j = Len(s) \/ IsSpace(s[j + 1])

\* mutant: the text is never split into words
SplitWords_whole(str) == <<str>>

\* trimmed.split(/\s+/).filter(Boolean): the sequence of words
SplitWords(str) ==
  Once({ [k \in 1..Cardinality(starts) |->
            LET start == CHOOSE i \in starts : Cardinality({j \in starts : j < i}) = k - 1
            IN SubSeq(s, start, WordEnd(s, start))]
         : s \in {str}, starts \in {WordStarts(str)} })

\* words.join(' '), from the i-th word on
RECURSIVE JoinFrom(_, _)
JoinFrom(ws, i) ==
  IF i > Len(ws) THEN <<>>
  ELSE IF i = Len(ws) THEN ws[i]
  ELSE ws[i] \o <<" ">> \o JoinFrom(ws, i + 1)

\* words.join(' ')
JoinWords(ws) == JoinFrom(ws, 1)

\* mutant: the end index of the slice is inclusive
Slice_inclusive(ws, from, to) == SubSeq(ws, from + 1, IF to < Len(ws) THEN to + 1 ELSE to)

\* words.slice(from, to) with 0-based, end-exclusive indices
Slice(ws, from, to) == SubSeq(ws, from + 1, to)

-----------------------------------------------------------------------------
(* The measuring context *)

\* the fallback family of checkLayoutFits and exportForPrintful
Arial == "Arial"
\* config.fontFamilies of the designer: the family the caller passes
Families == {"Arial", "Yuji Syuku, serif"}

\* advance of one character in half font sizes, before the family's factor
CharUnits(c) == IF c \in {" ", "-"} THEN 1 ELSE 2

\* the advances of the characters of a string, summed
StringUnits(str) ==
  Once({ 2 * Cardinality({i \in 1..Len(s) : CharUnits(s[i]) = 2})
           + Cardinality({i \in 1..Len(s) : CharUnits(s[i]) = 1}) : s \in {str} })

\* A measurer is deterministic: the width of a string is a function of the
\* string and of the font.  It gives every family one factor; the families
\* other than the caller's render like Arial.
Measurers ==
  { [arial |-> 0, custom |-> 0],     \* a context that measures every string as 0
    [arial |-> 1, custom |-> 1],
    [arial |-> 2, custom |-> 2],
    [arial |-> 5, custom |-> 2],     \* Arial wider than the caller's family
    [arial |-> 2, custom |-> 5] }    \* Arial narrower than the caller's family

FamilyFactor(m, family) == IF family = Arial \/ family = "sans-serif" THEN m.arial ELSE m.custom

\* ctx.font = `${fontSize}px ${fontFamily}`
SetFont(fontSize, fontFamily) == [size |-> fontSize, family |-> fontFamily]

\* ctx.measureText(s).width under the font the context is set to
\* (a measurer with a perChar field gives every character of every family
\* that many thousandths of the font size)
MeasureText(s, font) ==
  IF "perChar" \in DOMAIN measurer
  THEN Len(s) * font.size * measurer.perChar
  ELSE StringUnits(s) * font.size * FamilyFactor(measurer, font.family) * 500

-----------------------------------------------------------------------------
(* Configuration and area mapping *)

\* new TextLayoutEngine(canvasWidth = 600, canvasHeight = 600)
NewTextLayoutEngine(cw, ch) == [canvasWidth |-> cw, canvasHeight |-> ch, config |-> ConstructorConfig]

Orientations == {"horizontal", "vertical"}
\* a value of the orientation argument that is no key of canvasMapping
UnsupportedOrientation == "diagonal"

\* canvasMapping is an object literal: besides its own keys, a property read
\* finds what it inherits from Object.prototype
ObjectPrototypeKeys ==
  {"constructor", "toString", "toLocaleString", "valueOf", "hasOwnProperty",
   "isPrototypeOf", "propertyIsEnumerable", "__proto__"}
\* a value of the orientation argument that names an inherited property
InheritedOrientation == "constructor"

\* mutant: canvasMapping has no entry under the key "vertical"
MappingMissing_noVertical(orientation) ==
  orientation \notin ((DOMAIN engine.config.canvasMapping) \ {"vertical"}) \cup ObjectPrototypeKeys

\* this.config.canvasMapping[orientation] is undefined: reading a property of it throws
MappingMissing(orientation) ==
  orientation \notin (DOMAIN engine.config.canvasMapping) \cup ObjectPrototypeKeys

\* this.config.canvasMapping[orientation], when it is not undefined: the
\* rectangle of the orientation, or the inherited function or object
CanvasMapping(orientation) ==
  IF orientation \in DOMAIN engine.config.canvasMapping
  THEN engine.config.canvasMapping[orientation]
  ELSE [inherited |-> orientation]

\* mapping.x, mapping.y, ...: undefined where the object has no such property,
\* and undefined in arithmetic gives NaN
Field(mapping, f) == IF f \in DOMAIN mapping THEN mapping[f] ELSE NaN

\* mutant: the left margin is taken off both sides, and the top margin off
\* top and bottom
getTextArea_leftTopOnly(orientation) ==
  LET mapping == CanvasMapping(orientation)
      margins == engine.config.margins
  IN [ x |-> Add(Field(mapping, "x"), margins.left),
       y |-> Add(Field(mapping, "y"), margins.top),
       width |-> Sub(Sub(Field(mapping, "width"), margins.left), margins.left),
       height |-> Sub(Sub(Field(mapping, "height"), margins.top), margins.top),
       orientation |-> orientation ]

getTextArea(orientation) ==
  LET mapping == CanvasMapping(orientation)
      margins == engine.config.margins
  IN [ x |-> Add(Field(mapping, "x"), margins.left),
       y |-> Add(Field(mapping, "y"), margins.top),
       width |-> Sub(Sub(Field(mapping, "width"), margins.left), margins.right),
       height |-> Sub(Sub(Field(mapping, "height"), margins.top), margins.bottom),
       orientation |-> orientation ]

-----------------------------------------------------------------------------
(* Horizontal line breaker *)

\* mutant: a split with an equal score replaces the best one
ScoreImproves_orEqual(score, bestIdx, bestScore) == bestIdx = -1 \/ score <= bestScore

\* score < bestScore, where bestScore is Infinity until a split was kept
ScoreImproves(score, bestIdx, bestScore) == bestIdx = -1 \/ score < bestScore

\* the balanced split loop, from index i on: the best index so far (-1: none,
\* bestScore is then Infinity) after the loop has run to words.length - 1
RECURSIVE BalancedSplitFrom(_, _, _, _, _, _)
BalancedSplitFrom(words, i, bestIdx, bestScore, font, width) ==
  IF i >= Len(words) THEN bestIdx
  ELSE LET left  == JoinWords(Slice(words, 0, i))
           right == JoinWords(Slice(words, i, Len(words)))
           wL == MeasureText(left, font)
           wR == MeasureText(right, font)
           score == IF wL >= wR THEN wL - wR ELSE wR - wL
           better == Le(wL, width) /\ Le(wR, width) /\ ScoreImproves(score, bestIdx, bestScore)
       IN BalancedSplitFrom(words, i + 1,
                            IF better THEN i ELSE bestIdx,
                            IF better THEN score ELSE bestScore, font, width)

\* mutant: the one-line shortcut ignores forceTwoLines
KeepOneLine_unforced(force, oneLineWidth, width) == Le(oneLineWidth, width)

\* "If it fits in one line, keep it one line (unless forced)"
KeepOneLine(force, oneLineWidth, width) == ~force /\ Le(oneLineWidth, width)

\* mutant: the first-word split is never preferred
PreferFirstWord_never(force, words) == FALSE

\* "If forcing two lines and we have at least 2 words, prefer one word per line"
PreferFirstWord(force, words) == force /\ Len(words) >= 2

\* mutant: the first-word split is taken without measuring its halves
FirstWordSplitFits_unchecked(left, right, font, width) == TRUE

\* both halves of the first-word split are no wider than the area
FirstWordSplitFits(left, right, font, width) ==
  Le(MeasureText(left, font), width) /\ Le(MeasureText(right, font), width)

\* mutant: one line per word
createHorizontalLinesWithSpaceBreaking_perWord(text, fontSize, fontFamily, ctx, area, force) ==
  SplitWords(Trim(text))

createHorizontalLinesWithSpaceBreaking(text, fontSize, fontFamily, ctx, area, force) ==
  LET font == SetFont(fontSize, fontFamily)
      trimmed == Trim(text)
      oneLineWidth == MeasureText(trimmed, font)
      words == SplitWords(trimmed)
      left == JoinWords(Slice(words, 0, 1))
      right == JoinWords(Slice(words, 1, Len(words)))
      bestIdx == BalancedSplitFrom(words, 1, -1, 0, font, area.width)
  IN IF KeepOneLine(force, oneLineWidth, area.width) THEN <<trimmed>>
     ELSE IF PreferFirstWord(force, words)
             /\ FirstWordSplitFits(left, right, font, area.width) THEN <<left, right>>
     ELSE IF Len(words) > 1 /\ bestIdx > 0
          THEN <<JoinWords(Slice(words, 0, bestIdx)), JoinWords(Slice(words, bestIdx, Len(words)))>>
     ELSE <<trimmed>>

-----------------------------------------------------------------------------
(* Vertical text normalizer *)

\* .replace(/\s+/g, '')
NotSpace(c) == ~IsSpace(c)
\* mutant: the replace without the g flag removes the first whitespace run only
RemoveSpaces_firstRun(s) ==
  IF ~HasSpace(s) THEN s
  ELSE LET i == CHOOSE k \in 1..Len(s) : IsSpace(s[k]) /\ \A m \in 1..(k - 1) : ~IsSpace(s[m])
           j == CHOOSE k \in i..Len(s) :
                  /\ \A m \in i..k : IsSpace(s[m])
                  /\ k = Len(s) \/ ~IsSpace(s[k + 1])
       IN SubSeq(s, 1, i - 1) \o SubSeq(s, j + 1, Len(s))

RemoveSpaces(s) == SelectSeq(s, NotSpace)

\* mutant: only the ASCII hyphen is replaced
ReplaceHyphens_asciiOnly(str) ==
  Once({ [i \in 1..Len(s) |-> IF s[i] = "-" THEN VerticalBar ELSE s[i]] : s \in {str} })

\* .replace(/[...]/g, the vertical line)
ReplaceHyphens(str) ==
  Once({ [i \in 1..Len(s) |-> IF IsHyphenLike(s[i]) THEN VerticalBar ELSE s[i]] : s \in {str} })

cleanTextForVertical(text) == Trim(ReplaceHyphens(RemoveSpaces(text)))

-----------------------------------------------------------------------------
(* Position calculator *)

\* mutant: the line starts at the left edge of the text area
CenterX_left(area, lineWidth) == area.x

\* textArea.x + (textArea.width - metrics.width) / 2
CenterX(area, lineWidth) == Add(area.x, Half(Sub(area.width, lineWidth)))

\* the column of a vertical layout placed at the centre of the area, without the bias
ColumnX_centre(area) == Add(area.x, Half(area.width))

\* columnX: the centre of the area plus a fixed 45px
ColumnX(area) == Add(area.x, Add(Half(area.width), Px(45)))

calculatePositions(lines, fontSize, fontFamily, lineHeight, ctx, orientation, area) ==
  LET font == SetFont(fontSize, fontFamily) IN
  IF orientation = "vertical"
  THEN LET startY == Add(area.y, fontSize * 850)
           columnX == ColumnX(area)
           charSpacing == (lineHeight * engine.config.verticalSpacing.charSpacingMultiplier) \div 1000
           text == IF lines = <<>> THEN <<>> ELSE lines[1]
       IN [ i \in 1..Len(text) |->
              [ x |-> columnX,
                y |-> Add(startY, (i - 1) * charSpacing),
                line |-> <<text[i]>>,
                width |-> MeasureText(<<text[i]>>, font),
                height |-> Px(fontSize),
                useReducedSpacing |-> FALSE ] ]
  ELSE LET startY == Add(area.y, fontSize * 1600)
       IN [ i \in 1..Len(lines) |->
              [ x |-> CenterX(area, MeasureText(lines[i], font)),
                y |-> Add(startY, (i - 1) * lineHeight),
                line |-> lines[i],
                width |-> MeasureText(lines[i], font),
                height |-> Px(fontSize),
                useReducedSpacing |-> TRUE,
                letterSpacingReduction |-> fontSize * 100 ] ]

-----------------------------------------------------------------------------
(* Layout construction *)

\* null
NoLayout == [null |-> TRUE]

createLayoutAtSize(text, fontSize, fontFamily, ctx, orientation, area, force) ==
  LET lineHeight == fontSize * engine.config.lineSpacing
      lines == IF orientation = "vertical"
               THEN <<cleanTextForVertical(text)>>
               ELSE createHorizontalLinesWithSpaceBreaking(text, fontSize, fontFamily, ctx, area, force)
  IN [ fits |-> TRUE,
       fitsInPrintArea |-> TRUE,
       lines |-> lines,
       allLines |-> lines,
       positions |-> calculatePositions(lines, fontSize, fontFamily, lineHeight, ctx, orientation, area),
       fontSize |-> fontSize,
       lineHeight |-> lineHeight,
       totalHeight |-> Len(lines) * lineHeight,
       textArea |-> area,
       printArea |-> CanvasMapping(orientation),
       metadata |-> [ originalFontSize |-> fontSize,
                      linesCount |-> Len(lines),
                      wasTruncated |-> FALSE,
                      orientation |-> orientation ] ]

createEmptyLayout(orientation) ==
  [ fits |-> TRUE,
    fitsInPrintArea |-> TRUE,
    lines |-> <<>>,
    positions |-> <<>>,
    fontSize |-> 0,
    lineHeight |-> 0,
    totalHeight |-> 0,
    textArea |-> getTextArea(orientation),
    printArea |-> CanvasMapping(orientation),
    metadata |-> [empty |-> TRUE, orientation |-> orientation] ]

-----------------------------------------------------------------------------
(* Fit checker *)

\* layout.fontFamily || 'Arial': no layout the engine builds has a fontFamily
LayoutFontFamily(layout) == IF "fontFamily" \in DOMAIN layout THEN layout.fontFamily ELSE Arial

\* the font checkLayoutFits sets before it measures the lines
CheckFont(layout) == SetFont(layout.fontSize, LayoutFontFamily(layout))

\* mutant: the vertical check also requires every character to be no wider
\* than the area
checkLayoutFits_verticalWidth(layout, area, orientation, ctx) ==
  IF orientation = "vertical"
  THEN LET text == IF layout.lines = <<>> THEN <<>> ELSE layout.lines[1]
           charHeight == (layout.lineHeight * engine.config.verticalSpacing.charSpacingMultiplier) \div 1000
       IN /\ Le(Len(text) * charHeight, area.height)
          /\ \A i \in 1..Len(text) : Le(MeasureText(<<text[i]>>, ctx), area.width)
  ELSE /\ ~Gt(Len(layout.lines) * layout.lineHeight, area.height)
       /\ \A i \in 1..Len(layout.lines) :
            Le(MeasureText(layout.lines[i], CheckFont(layout)), area.width)

checkLayoutFits(layout, area, orientation, ctx) ==
  IF orientation = "vertical"
  THEN LET text == IF layout.lines = <<>> THEN <<>> ELSE layout.lines[1]
           charHeight == (layout.lineHeight * engine.config.verticalSpacing.charSpacingMultiplier) \div 1000
           totalHeight == Len(text) * charHeight
       IN Le(totalHeight, area.height)
  ELSE LET totalHeight == Len(layout.lines) * layout.lineHeight IN
       IF Gt(totalHeight, area.height) THEN FALSE
       ELSE \A i \in 1..Len(layout.lines) :
              Le(MeasureText(layout.lines[i], CheckFont(layout)), area.width)

\* ctx.font when checkLayoutFits returns
CtxAfterCheck(layout, area, orientation, ctx) ==
  IF orientation = "vertical" THEN ctx
  ELSE IF Gt(Len(layout.lines) * layout.lineHeight, area.height) THEN ctx
  ELSE CheckFont(layout)

-----------------------------------------------------------------------------
(* Unit converter and export *)

\* pixels * (widthInches / canvasWidth): thousandths of a pixel to hundred-thousandths
\* of an inch (the factor 100 is taken out of the divisor to stay within TLC's integers)
pixelsToInches(pixels) ==
  IF IsNaN(pixels) THEN NaN
  ELSE (pixels * engine.config.printArea.widthInches) \div (engine.canvasWidth \div 100)

\* pixels * (72 / 96): whole pixels to thousandths of a point
pixelsToPoints(pixels) == (pixels * 72 * 1000) \div 96

IsNull(v) == "null" \in DOMAIN v

\* mutant: exportForPrintful does not look at metadata.empty
MetadataEmpty_never(layout) == FALSE

\* layout.metadata.empty is undefined (falsy) unless createEmptyLayout set it
MetadataEmpty(layout) == "empty" \in DOMAIN layout.metadata /\ layout.metadata.empty

\* mutant: the coordinates are exported relative to the canvas origin
exportForPrintful_canvasOrigin(layout) ==
  IF IsNull(layout) \/ MetadataEmpty(layout) THEN NoLayout
  ELSE LET orientation == layout.metadata.orientation
           mapping == CanvasMapping(orientation)
       IN [ printArea |-> [ width |-> engine.config.printArea.widthInches,
                            height |-> engine.config.printArea.heightInches,
                            dpi |-> engine.config.printArea.dpi ],
            textElements |->
              [ i \in 1..Len(layout.positions) |->
                  LET pos == layout.positions[i] IN
                  [ text |-> pos.line,
                    x |-> pixelsToInches(pos.x),
                    y |-> pixelsToInches(pos.y),
                    fontSize |-> pixelsToPoints(layout.fontSize),
                    fontFamily |-> LayoutFontFamily(layout),
                    width |-> pixelsToInches(pos.width),
                    height |-> pixelsToInches(pos.height) ] ],
            metadata |-> [ exactCoordinates |-> mapping,
                           totalLines |-> Len(layout.lines),
                           fontSize |-> layout.fontSize,
                           baseFontSize |-> IF "baseFontSize" \in DOMAIN layout.metadata
                                            THEN layout.metadata.baseFontSize
                                            ELSE Undefined,
                           orientation |-> orientation ] ]

exportForPrintful(layout) ==
  IF IsNull(layout) \/ MetadataEmpty(layout) THEN NoLayout
  ELSE LET orientation == layout.metadata.orientation
           mapping == CanvasMapping(orientation)
       IN [ printArea |-> [ width |-> engine.config.printArea.widthInches,
                            height |-> engine.config.printArea.heightInches,
                            dpi |-> engine.config.printArea.dpi ],
            textElements |->
              [ i \in 1..Len(layout.positions) |->
                  LET pos == layout.positions[i] IN
                  [ text |-> pos.line,
                    x |-> pixelsToInches(Sub(pos.x, Field(mapping, "x"))),
                    y |-> pixelsToInches(Sub(pos.y, Field(mapping, "y"))),
                    fontSize |-> pixelsToPoints(layout.fontSize),
                    fontFamily |-> LayoutFontFamily(layout),
                    width |-> pixelsToInches(pos.width),
                    height |-> pixelsToInches(pos.height) ] ],
            metadata |-> [ exactCoordinates |-> mapping,
                           totalLines |-> Len(layout.lines),
                           fontSize |-> layout.fontSize,
                           baseFontSize |-> IF "baseFontSize" \in DOMAIN layout.metadata
                                            THEN layout.metadata.baseFontSize
                                            ELSE Undefined,
                           orientation |-> orientation ] ]

-----------------------------------------------------------------------------
(* Adaptive fit loop: the pieces of fitText *)

\* mutant: the guard is !text alone, without the trim
IsBlankText_noTrim(text) == text = Undefined \/ text = <<>>

\* !text || !text.trim()
IsBlankText(text) == IF text = Undefined THEN TRUE ELSE Trim(text) = <<>>

\* mutant: textWidth measures under whatever font the context was left in
textWidth_staleFont(text, fontSize, fontFamily, ctx) == MeasureText(text, ctx)

\* helper textWidth: sets the font, then measures
textWidth(text, fontSize, fontFamily, ctx) == MeasureText(text, SetFont(fontSize, fontFamily))

\* Math.ceil(a / b) for a >= 0, b > 0
CeilDiv(a, b) == (a + b - 1) \div b

maxAttempts ==
  CeilDiv(engine.config.baseFontSize - engine.config.minFontSize, engine.config.scaleStep) + 5

\* mutant: whitespace is looked for in the trimmed text
ForceTwoLines_trimmedSpace(text, fontFamily, orientation, area, ctx) ==
  /\ orientation = "horizontal"
  /\ HasSpace(Trim(text))
  /\ Gt(MeasureText(Trim(text), SetFont(engine.config.baseFontSize, fontFamily)), area.width)

\* mutant: the base width is measured in the font the context was left in
ForceTwoLines_staleFont(text, fontFamily, orientation, area, ctx) ==
  orientation = "horizontal" /\ HasSpace(text) /\ Gt(MeasureText(Trim(text), ctx), area.width)

\* forceTwoLines, computed once before the loop
ForceTwoLines(text, fontFamily, orientation, area, ctx) ==
  LET hasSpace == HasSpace(text)
      baseWidth == textWidth(Trim(text), engine.config.baseFontSize, fontFamily, ctx)
  IN orientation = "horizontal" /\ hasSpace /\ Gt(baseWidth, area.width)

\* mutant: the search starts at the size the caller passed
StartSize_fromArgument(ignoredFontSize) == ignoredFontSize

\* let currentFontSize = this.config.baseFontSize: the second parameter is not read
StartSize(ignoredFontSize) == engine.config.baseFontSize

\* mutant: the loop runs while the size is positive, with no attempt bound
LoopCond_positive(size, n) == size > 0

\* mutant: the loop condition is always true
LoopCond_always(size, n) == TRUE

\* mutant: the loop runs only while the size is above minFontSize
LoopCond_aboveMin(size, n) == size > engine.config.minFontSize /\ n < maxAttempts

\* the condition of the while loop
LoopCond(size, n) == size >= engine.config.minFontSize /\ n < maxAttempts

\* mutant: the latest attempt always replaces the best one
KeepBest_latest(best, layout, size) == layout

\* "Store best attempt"
KeepBest(best, layout, size) ==
  IF IsNull(best) \/ size > best.fontSize THEN layout ELSE best

\* mutant: the size is reduced by one pixel instead of scaleStep
NextFontSize_byOne(size) == size - 1

\* "Reduce font size"
NextFontSize(size) == size - engine.config.scaleStep

\* mutant: finalSize is stamped with the base size
StampMetadata_baseAsFinal(layout, n, orientation) ==
  [layout EXCEPT !.metadata =
     [ originalFontSize |-> layout.metadata.originalFontSize,
       linesCount |-> layout.metadata.linesCount,
       wasTruncated |-> layout.metadata.wasTruncated,
       baseFontSize |-> engine.config.baseFontSize,
       finalSize |-> engine.config.baseFontSize,
       scalingAttempts |-> n,
       orientation |-> orientation ]]

\* "Update metadata"
StampMetadata(layout, n, orientation) ==
  [layout EXCEPT !.metadata =
     [ originalFontSize |-> layout.metadata.originalFontSize,
       linesCount |-> layout.metadata.linesCount,
       wasTruncated |-> layout.metadata.wasTruncated,
       baseFontSize |-> engine.config.baseFontSize,
       finalSize |-> layout.fontSize,
       scalingAttempts |-> n,
       orientation |-> orientation ]]

-----------------------------------------------------------------------------
(* Inputs *)

ShortTexts(n) == UNION {[1..k -> Alphabet] : k \in 0..n}
LongWords == {[i \in 1..k |-> "a"] : k \in (MaxLen + 1)..MaxRun}
Texts == ShortTexts(MaxLen) \cup LongWords \cup {Undefined}
\* the texts of the repeated-call specification: letters and blanks, and one long word
IdemTexts ==
  UNION {[1..k -> {"a", " "}] : k \in 0..IdemLen} \cup {[i \in 1..MaxRun |-> "a"]}

\* the second argument of fitText as the designer passes it: its config.baseFontSize
DesignerSizeArgs == {40}

NoArgs == [null |-> TRUE]
NoRef == [null |-> TRUE]
\* exportForPrintful has not been called on the last result
NotExported == [none |-> TRUE]
NoArea == [null |-> TRUE]
\* no method has been called directly
NoProbe == [null |-> TRUE]
\* the 2D context's initial font
DefaultFont == SetFont(10, "sans-serif")

-----------------------------------------------------------------------------
(* State machine *)

\* no page: the engine is used on its own
NoBoot == [null |-> TRUE]
NoDesigner == [null |-> TRUE]
NoElements == [null |-> TRUE]
NoSubmit == [null |-> TRUE]
NoPage ==
  /\ boot = NoBoot
  /\ state = NoDesigner
  /\ els = NoElements
  /\ tasks = {}
  /\ submitted = NoSubmit

Init ==
  /\ engine = NewTextLayoutEngine(defaultCanvasWidth, defaultCanvasHeight)
  /\ measurer \in Measurers
  /\ ctxFont = DefaultFont
  /\ pc = "idle"
  /\ args = NoArgs
  /\ textArea = NoArea
  /\ currentFontSize = 0
  /\ bestLayout = NoLayout
  /\ attempts = 0
  /\ forceTwoLines = FALSE
  /\ tried = <<>>
  /\ result = NoLayout
  /\ exported = NotExported
  /\ ref = NoRef
  /\ probe = NoProbe
  /\ NoPage

\* fitText up to the loop: the empty-text return, getTextArea, the locals, forceTwoLines
FitTextCall(T, O, S) ==
  /\ pc = "idle"
  /\ \E text \in T, ignoredFontSize \in S, fontFamily \in Families,
        orientation \in O :
       /\ args' = [text |-> text, ignoredFontSize |-> ignoredFontSize,
                   fontFamily |-> fontFamily, orientation |-> orientation]
       /\ tried' = <<>>
       /\ attempts' = 0
       /\ bestLayout' = NoLayout
       /\ IF MappingMissing(orientation)
          THEN /\ pc' = "threw"
               /\ UNCHANGED <<textArea, currentFontSize, forceTwoLines, result, ctxFont>>
          ELSE IF IsBlankText(text)
          THEN /\ pc' = "done"
               /\ result' = createEmptyLayout(orientation)
               /\ UNCHANGED <<textArea, currentFontSize, forceTwoLines, ctxFont>>
          ELSE /\ pc' = "loop"
               /\ textArea' = getTextArea(orientation)
               /\ currentFontSize' = StartSize(ignoredFontSize)
               /\ forceTwoLines' = ForceTwoLines(text, fontFamily, orientation,
                                                 getTextArea(orientation), ctxFont)
               /\ ctxFont' = SetFont(engine.config.baseFontSize, fontFamily)
               /\ UNCHANGED result
  /\ exported' = NotExported
  /\ ref' = IF IsNull(ref) \/ ref.later = 2 THEN ref ELSE [ref EXCEPT !.later = @ + 1]
  /\ UNCHANGED <<page, engine, measurer, probe>>

\* one iteration of the adaptive scaling loop
LoopAttempt ==
  /\ pc = "loop"
  /\ LoopCond(currentFontSize, attempts)
  /\ \E layout \in {createLayoutAtSize(args.text, currentFontSize, args.fontFamily, ctxFont,
                                          args.orientation, textArea, forceTwoLines)} :
     \E builtFont \in {SetFont(currentFontSize, args.fontFamily)} :
     \E fitsCompletely \in {checkLayoutFits(layout, textArea, args.orientation, builtFont)} :
        /\ attempts' = attempts + 1
        /\ tried' = Append(tried, [fontSize |-> currentFontSize, fits |-> fitsCompletely,
                                   lines |-> layout.lines])
        /\ ctxFont' = CtxAfterCheck(layout, textArea, args.orientation, builtFont)
        /\ IF fitsCompletely
           THEN /\ bestLayout' = layout
                /\ pc' = "fit"
                /\ UNCHANGED currentFontSize
           ELSE /\ bestLayout' = KeepBest(bestLayout, layout, currentFontSize)
                /\ currentFontSize' = NextFontSize(currentFontSize)
                /\ pc' = "loop"
  /\ UNCHANGED <<page, engine, measurer, args, textArea, forceTwoLines, result, exported, ref, probe>>

\* the loop condition fails: the search is exhausted
LoopExhausted ==
  /\ pc = "loop"
  /\ ~LoopCond(currentFontSize, attempts)
  /\ pc' = "exhausted"
  /\ UNCHANGED <<page, engine, measurer, ctxFont, locals, result, exported, ref, probe>>

\* after the loop: the minFontSize fallback, the metadata, the return
FitTextReturn ==
  /\ pc \in {"fit", "exhausted"}
  /\ LET fallback == IsNull(bestLayout)
         best == IF fallback
                 THEN createLayoutAtSize(args.text, engine.config.minFontSize, args.fontFamily,
                                         ctxFont, args.orientation, textArea, FALSE)
                 ELSE bestLayout
     IN /\ bestLayout' = StampMetadata(best, attempts, args.orientation)
        /\ result' = StampMetadata(best, attempts, args.orientation)
        /\ ctxFont' = IF fallback THEN SetFont(engine.config.minFontSize, args.fontFamily)
                      ELSE ctxFont
  /\ pc' = "done"
  /\ UNCHANGED <<page, engine, measurer, args, textArea, currentFontSize, attempts, forceTwoLines,
                 tried, exported, ref, probe>>

\* exportForPrintful on what the last call returned (null when nothing was returned)
ExportForPrintful ==
  /\ pc \in {"idle", "done"}
  /\ exported' = exportForPrintful(result)
  /\ UNCHANGED <<page, engine, measurer, ctxFont, pc, locals, result, ref, probe>>

\* the call is over: its locals and the values it returned are dropped
CallEnds ==
  /\ pc \in {"done", "threw"}
  /\ pc' = "idle"
  /\ args' = NoArgs
  /\ textArea' = NoArea
  /\ currentFontSize' = 0
  /\ bestLayout' = NoLayout
  /\ attempts' = 0
  /\ forceTwoLines' = FALSE
  /\ tried' = <<>>
  /\ result' = NoLayout
  /\ exported' = NotExported
  /\ UNCHANGED <<page, engine, measurer, ctxFont, ref, probe>>

\* an observer remembers one finished call and what it returned
Remember ==
  /\ pc = "done"
  /\ IsNull(ref)
  /\ ref' = [args |-> args, result |-> result, later |-> 0]
  /\ UNCHANGED <<page, engine, measurer, ctxFont, pc, locals, result, exported, probe>>

Next ==
  \/ FitTextCall(Texts, Orientations \cup {UnsupportedOrientation}, DesignerSizeArgs)
  \/ LoopAttempt
  \/ LoopExhausted
  \/ FitTextReturn
  \/ ExportForPrintful
  \/ CallEnds

Spec == Init /\ [][Next]_vars

\* The termination specification: a few texts (one letter, a two-word text, a
\* word of half the longest length, the longest word).  The fit loop is
\* synchronous code: once fitText is called it runs to its return, which is
\* what the fairness conditions say.
TermTexts ==
  {[i \in 1..k |-> "a"] : k \in {1, MaxRun \div 2, MaxRun}} \cup {<<"a", " ", "a">>}

NextTerm ==
  \/ FitTextCall(TermTexts, Orientations, DesignerSizeArgs)
  \/ LoopAttempt
  \/ LoopExhausted
  \/ FitTextReturn
  \/ CallEnds

FairSpec ==
  /\ Init /\ [][NextTerm]_vars
  /\ WF_vars(LoopAttempt) /\ WF_vars(LoopExhausted) /\ WF_vars(FitTextReturn)

NextIdem ==
  \/ FitTextCall(IdemTexts, Orientations, DesignerSizeArgs)
  \/ LoopAttempt
  \/ LoopExhausted
  \/ FitTextReturn
  \/ CallEnds
  \/ Remember

SpecIdem == Init /\ [][NextIdem]_vars

-----------------------------------------------------------------------------
(* The engine's methods called one by one, on engines whose configuration was
   assigned after construction, and fitText on the texts of the scenarios *)

\* the widths of the text area, in pixels
UnitAreaWidths == {20, 160, 194}
\* the margins: the constructor's, and four different ones
UnitMargins ==
  { ConstructorConfig.margins,
    [top |-> Px(1), bottom |-> Px(2), left |-> Px(4), right |-> Px(8)] }

\* engine.config.margins = m; engine.config.canvasMapping[o].width = w + m.left + m.right
Configure(e, w, m) ==
  [e EXCEPT !.config.margins = m,
            !.config.canvasMapping.horizontal.width = Px(w) + m.left + m.right,
            !.config.canvasMapping.vertical.width = Px(w) + m.left + m.right]

\* other font-size bounds that keep minFontSize <= baseFontSize and scaleStep > 0:
\* a single candidate size, and a step that does not divide the range
UnitSizings ==
  { [baseFontSize |-> 12, minFontSize |-> 12, scaleStep |-> 5],
    [baseFontSize |-> 20, minFontSize |-> 12, scaleStep |-> 3] }

\* engine.config.baseFontSize = ...; engine.config.minFontSize = ...; engine.config.scaleStep = ...
Resize(e, sizing) ==
  [e EXCEPT !.config.baseFontSize = sizing.baseFontSize,
            !.config.minFontSize = sizing.minFontSize,
            !.config.scaleStep = sizing.scaleStep]

UnitEngines ==
  { Configure(NewTextLayoutEngine(defaultCanvasWidth, defaultCanvasHeight), w, m) :
      w \in UnitAreaWidths, m \in UnitMargins }
  \cup { Resize(NewTextLayoutEngine(defaultCanvasWidth, defaultCanvasHeight), sizing) :
           sizing \in UnitSizings }

\* 0.625 of the font size for every character; a letter one font size wide;
\* Arial narrower than the caller's family
UnitMeasurers ==
  { [arial |-> 0, custom |-> 0, perChar |-> 625],
    [arial |-> 1, custom |-> 1],
    [arial |-> 2, custom |-> 5] }

HelloWorld == <<"H", "E", "L", "L", "O", " ", "W", "O", "R", "L", "D">>
\* "A - B—C"
DashExample == <<"A", " ", "-", " ", "B", "U2014", "C">>

\* the font sizes passed as second argument in direct calls
UnitSizeArgs == {12, 40, 72}

ScenarioTexts == {HelloWorld, <<"H", "I">>, <<" ">>, <<>>}
UnitOrientations == Orientations \cup {UnsupportedOrientation, InheritedOrientation}

\* the texts given to the line breaker: words of the letter a and blanks
BreakTexts == UNION {[1..k -> {"a", " "}] : k \in 0..BreakLen} \cup {HelloWorld}
\* the font sizes given to the line breaker
BreakSizes == {12, 40, 48}

\* the texts given to the vertical normalizer
CleanAlphabet == {"a", "b", " ", "U3000", "-", "U2014", "U30FC"}
CleanTexts == UNION {[1..k -> CleanAlphabet] : k \in 0..CleanLen} \cup {DashExample}

InitUnit ==
  /\ engine \in UnitEngines
  /\ measurer \in UnitMeasurers
  /\ ctxFont = DefaultFont
  /\ pc = "idle"
  /\ args = NoArgs
  /\ textArea = NoArea
  /\ currentFontSize = 0
  /\ bestLayout = NoLayout
  /\ attempts = 0
  /\ forceTwoLines = FALSE
  /\ tried = <<>>
  /\ result = NoLayout
  /\ exported = NotExported
  /\ ref = NoRef
  /\ probe = NoProbe
  /\ NoPage

\* engine.getTextArea(orientation)
GetTextArea ==
  /\ pc = "idle" /\ IsNull(probe)
  /\ \E orientation \in UnitOrientations :
       probe' = [ op |-> "getTextArea", orientation |-> orientation,
                  threw |-> MappingMissing(orientation),
                  out |-> IF MappingMissing(orientation) THEN NoArea
                          ELSE getTextArea(orientation) ]
  /\ UNCHANGED <<page, engine, measurer, ctxFont, pc, locals, result, exported, ref>>

\* engine.createEmptyLayout(orientation)
CreateEmptyLayout ==
  /\ pc = "idle" /\ IsNull(probe)
  /\ \E orientation \in UnitOrientations :
       probe' = [ op |-> "createEmptyLayout", orientation |-> orientation,
                  threw |-> MappingMissing(orientation),
                  out |-> IF MappingMissing(orientation) THEN NoLayout
                          ELSE createEmptyLayout(orientation) ]
  /\ UNCHANGED <<page, engine, measurer, ctxFont, pc, locals, result, exported, ref>>

\* engine.createHorizontalLinesWithSpaceBreaking(text, fontSize, fontFamily, ctx,
\*   engine.getTextArea('horizontal'), forceTwoLines)
BreakLines ==
  /\ pc = "idle" /\ IsNull(probe)
  /\ \E text \in BreakTexts, fontSize \in BreakSizes, fontFamily \in Families, force \in BOOLEAN :
       /\ probe' = [ op |-> "breakLines", text |-> text, fontSize |-> fontSize,
                     fontFamily |-> fontFamily, area |-> getTextArea("horizontal"),
                     force |-> force,
                     out |-> createHorizontalLinesWithSpaceBreaking(
                               text, fontSize, fontFamily, ctxFont,
                               getTextArea("horizontal"), force) ]
       /\ ctxFont' = SetFont(fontSize, fontFamily)
  /\ UNCHANGED <<page, engine, measurer, pc, locals, result, exported, ref>>

\* engine.cleanTextForVertical(text)
CleanTextForVertical ==
  /\ pc = "idle" /\ IsNull(probe)
  /\ \E text \in CleanTexts :
       probe' = [op |-> "cleanTextForVertical", text |-> text, out |-> cleanTextForVertical(text)]
  /\ UNCHANGED <<page, engine, measurer, ctxFont, pc, locals, result, exported, ref>>

\* the value the method returned is dropped
ProbeEnds ==
  /\ ~IsNull(probe)
  /\ probe' = NoProbe
  /\ UNCHANGED <<page, engine, measurer, ctxFont, pc, locals, result, exported, ref>>

NextUnit ==
  \/ (IsNull(probe) /\ FitTextCall(ScenarioTexts, UnitOrientations, UnitSizeArgs))
  \/ LoopAttempt
  \/ LoopExhausted
  \/ FitTextReturn
  \/ CallEnds
  \/ GetTextArea
  \/ CreateEmptyLayout
  \/ BreakLines
  \/ CleanTextForVertical
  \/ ProbeEnds

SpecUnit == InitUnit /\ [][NextUnit]_vars

\* The specification of calls that differ in the font-size argument: fitText
\* on a few texts with every value of its second argument, on the engine as
\* constructed, with one earlier call and its result remembered.
ArgTexts ==
  {<<>>, <<"a">>, <<"a", " ", "a">>, [i \in 1..MaxRun |-> "a"]}

NextArg ==
  \/ FitTextCall(ArgTexts, Orientations, UnitSizeArgs)
  \/ LoopAttempt
  \/ LoopExhausted
  \/ FitTextReturn
  \/ CallEnds
  \/ Remember

SpecArg == Init /\ [][NextArg]_vars

-----------------------------------------------------------------------------
(* fitText as one call *)

\* The scaling loop as a function of the arguments alone, from candidate size
\* on, with n attempts made and best kept so far: the layout the loop ends
\* with and the number of attempts.  The measuring context it is given is in
\* its initial font state.
RECURSIVE LoopFrom(_, _, _, _, _, _)
LoopFrom(a, area, force, size, n, best) ==
  IF ~LoopCond(size, n) THEN [layout |-> best, attempts |-> n]
  ELSE Once({ IF checkLayoutFits(layout, area, a.orientation, DefaultFont)
              THEN [layout |-> layout, attempts |-> n + 1]
              ELSE LoopFrom(a, area, force, NextFontSize(size), n + 1, KeepBest(best, layout, size))
              : layout \in {createLayoutAtSize(a.text, size, a.fontFamily, DefaultFont,
                                                a.orientation, area, force)} })

\* what fitText returns for the arguments a on a context in its initial font state
FitTextOf(a) ==
  IF IsBlankText(a.text) THEN createEmptyLayout(a.orientation)
  ELSE Once({ StampMetadata(IF IsNull(r.layout)
                            THEN createLayoutAtSize(a.text, engine.config.minFontSize, a.fontFamily,
                                                    DefaultFont, a.orientation,
                                                    getTextArea(a.orientation), FALSE)
                            ELSE r.layout,
                            r.attempts, a.orientation)
              : r \in {LoopFrom(a, getTextArea(a.orientation),
                                ForceTwoLines(a.text, a.fontFamily, a.orientation,
                                              getTextArea(a.orientation), DefaultFont),
                                engine.config.baseFontSize, 0, NoLayout)} })

-----------------------------------------------------------------------------
(* The designer page: the TShirtDesigner object and the elements it uses *)

\* this.config.maxTextLength
maxTextLength == 16

\* this.state as the constructor builds it
NoVariant == [null |-> TRUE]
ConstructorState ==
  [ originalText |-> <<>>,
    translatedText |-> <<>>,
    fontColor |-> "#FFFFFF",
    fontStyle |-> "Yuji Syuku",
    orientation |-> "horizontal",
    isTranslating |-> FALSE,
    hasTranslation |-> FALSE,
    selectedVariant |-> NoVariant,
    isBlankImageActive |-> FALSE,
    currentLayout |-> NoLayout,
    actualFontSize |-> 40 ]

\* what the canvas shows
ClearCanvas == [clear |-> TRUE]
Guides == [guides |-> TRUE]

\* a hidden input that is not in the form
Absent == [absent |-> TRUE]

\* what the page's markup decides: whether the add-to-cart button starts
\* disabled, whether the main product image has loaded, is still loading, or
\* failed to load (complete, with naturalWidth 0), and whether
\* window.blankImageUrls has a blank shirt for the selected colour
Markups ==
  [ cartDisabled : BOOLEAN, image : {"loaded", "loading", "broken"}, blankUrl : BOOLEAN ]

\* the elements getElements finds, as the markup renders them; setupCanvas has
\* cleared the canvas
PageElements(markup) ==
  [ bound |-> FALSE,
    textInput |-> <<>>,
    charCount |-> 0,
    fontPreview |-> <<>>,
    translateDisabled |-> FALSE,
    cartDisabled |-> markup.cartDisabled,
    cartText |-> "markup",
    error |-> "hidden",
    translationShown |-> FALSE,
    japaneseResult |-> <<>>,
    canvas |-> ClearCanvas,
    mainImage |-> [src |-> "featured", status |-> markup.image],
    hasBlankUrl |-> markup.blankUrl,
    variantId |-> 0,
    formProps |-> Absent,
    designParams |-> Absent,
    previewDataUrl |-> Absent,
    previewMockupUrl |-> Absent ]

\* an asynchronous function of the designer that is waiting
Task(kind) == [kind |-> kind, text |-> <<>>, n |-> 0]

\* new TShirtDesigner() up to init's await of loadFonts, and the rest of start():
\* the first frame's updateCanvasWithLayout is requested
ConstructedTasks == {Task("init"), Task("frame")}

-----------------------------------------------------------------------------
(* The designer's methods, on w: its state (st), the elements (el) and the
   waiting asynchronous functions (tk) *)

\* this.config.fontFamilies[fontStyle] || 'Arial, sans-serif'
FontFamilyOf(fontStyle) ==
  IF fontStyle = "Yuji Syuku" THEN "Yuji Syuku, serif"
  ELSE IF fontStyle = "Huninn" THEN "Huninn, sans-serif"
  ELSE "Arial, sans-serif"

\* what the translation service answers for a text
Translation(text) ==
  IF text = <<"a">> THEN <<"U30A2">>
  ELSE IF text = <<"b">> THEN <<"U30D3", "U30FC">>
  ELSE <<"U30C6">>

hideTranslationResult(w0) ==
  Once({
    [w EXCEPT !.el.translationShown = FALSE, !.st.hasTranslation = FALSE]
    : w \in {w0} })

showTranslationResult(w0, translation) ==
  Once({
    [w EXCEPT !.el.japaneseResult = translation, !.el.translationShown = TRUE]
    : w \in {w0} })

showError(w0, message) ==
  Once({
    [w EXCEPT !.el.error = message]
    : w \in {w0} })

hideError(w0) ==
  Once({
    [w EXCEPT !.el.error = "hidden"]
    : w \in {w0} })

\* mutant: a translation may start while another is in flight
canTranslate_whileTranslating(w0) ==
  Once({
    Trim(w.st.originalText) # <<>>
    : w \in {w0} })

canTranslate(w0) ==
  Once({
    Trim(w.st.originalText) # <<>> /\ ~w.st.isTranslating
    : w \in {w0} })

updateCharCounter(w0) ==
  Once({
    [w EXCEPT !.el.charCount = Len(w.st.originalText)]
    : w \in {w0} })

\* the preview cards show the translation, or a sample (the empty text here)
updateFontPreviewCards(w0) ==
  Once({
    [w EXCEPT !.el.fontPreview = w.st.translatedText]
    : w \in {w0} })

updateTranslateButton(w0) ==
  Once({
    [w EXCEPT !.el.translateDisabled = ~canTranslate(w)]
    : w \in {w0} })

updateAddToCartButton(w0) ==
  Once({
    [w EXCEPT !.el.cartDisabled = ~w.st.hasTranslation,
                !.el.cartText = IF w.st.hasTranslation THEN "Add to Cart" ELSE "Translate Text First"]
    : w \in {w0} })

updateAvailability(w0, available) ==
  Once({
    IF ~available
      THEN [w EXCEPT !.el.cartDisabled = TRUE, !.el.cartText = "Out of Stock"]
      ELSE [w EXCEPT !.el.cartDisabled = ~w.st.hasTranslation,
                     !.el.cartText = IF w.st.hasTranslation THEN "Add to Cart" ELSE @]
    : w \in {w0} })

setTranslatingState(w0, isTranslating) ==
  Once({
    LET w1 == [w EXCEPT !.st.isTranslating = isTranslating] IN
      [w1 EXCEPT !.el.translateDisabled = IF isTranslating THEN TRUE ELSE ~canTranslate(w1)]
    : w \in {w0} })

updateFormProperties(w0) ==
  Once({
    [w EXCEPT !.el.formProps =
         [ originalText |-> w.st.originalText, japaneseText |-> w.st.translatedText,
           fontColor |-> w.st.fontColor, fontStyle |-> w.st.fontStyle,
           orientation |-> w.st.orientation ]]
    : w \in {w0} })

\* resetToDefaults
resetToDefaults(w0) ==
  Once({
    [w EXCEPT !.st.fontColor = "#FFFFFF", !.st.fontStyle = "Yuji Syuku"]
    : w \in {w0} })

\* captureTextCoordinates: the coordinates are a function of the current
\* layout, which stands for them here
captureTextCoordinates(w0) ==
  Once({
    IF IsNull(w.st.currentLayout) \/ ~w.st.hasTranslation THEN [coordinates |-> <<>>]
      ELSE [ coordinates |-> w.st.currentLayout.positions,
             fontFamily |-> w.st.fontStyle, fontColor |-> w.st.fontColor,
             orientation |-> w.st.orientation ]
    : w \in {w0} })

\* the designParams object addSimpleDesignParams serializes
DesignParams(w0) ==
  Once({
    [ translatedText |-> w.st.translatedText, fontStyle |-> w.st.fontStyle,
        fontColor |-> w.st.fontColor, orientation |-> w.st.orientation,
        originalText |-> w.st.originalText, textCoordinates |-> captureTextCoordinates(w) ]
    : w \in {w0} })

addSimpleDesignParams(w0) ==
  Once({
    [w EXCEPT !.el.designParams = DesignParams(w)]
    : w \in {w0} })

\* canvas.toDataURL: the picture is what the canvas shows
addPreviewDataUrlToForm(w0) ==
  Once({
    IF ~w.st.hasTranslation THEN w ELSE [w EXCEPT !.el.previewDataUrl = w.el.canvas]
    : w \in {w0} })

\* buildMockupDataUrl waits for a load or error event unless the image is
\* complete with a natural width
ImageReady(w0) ==
  Once({
    w.el.mainImage.status = "loaded"
    : w \in {w0} })

\* the composed picture: the shirt image under the canvas, or the canvas alone
\* when the image cannot be drawn
MockupDataUrl(w0) ==
  Once({
    [ overlay |-> w.el.canvas,
        shirt |-> IF w.el.mainImage.status = "loaded" THEN w.el.mainImage.src ELSE "none" ]
    : w \in {w0} })

\* addPreviewMockupUrlToForm after its await of buildMockupDataUrl
WriteMockup(w0) ==
  Once({
    [w EXCEPT !.el.previewMockupUrl = MockupDataUrl(w)]
    : w \in {w0} })

\* mutant: the composed picture is written at once from what the image is now
addPreviewMockupUrlToForm_noWait(w0) ==
  Once({
    IF ~w.st.hasTranslation THEN w ELSE WriteMockup(w)
    : w \in {w0} })

\* addPreviewMockupUrlToForm as far as it runs in the current task
addPreviewMockupUrlToForm(w0) ==
  Once({
    IF ~w.st.hasTranslation THEN w
      ELSE IF ImageReady(w) THEN WriteMockup(w)
      ELSE [w EXCEPT !.tk = @ \cup {Task("mockup")}]
    : w \in {w0} })

\* syncHiddenProps as far as it runs in the current task
syncHiddenProps(w0) ==
  Once({
    IF ~w.st.hasTranslation THEN w
      ELSE addPreviewMockupUrlToForm(addPreviewDataUrlToForm(addSimpleDesignParams(w)))
    : w \in {w0} })

\* the promise of syncHiddenProps() called on w stays pending until the image's
\* next load or error event
SyncWaits(w0) ==
  Once({
    w.st.hasTranslation /\ ~ImageReady(w)
    : w \in {w0} })

\* updateCanvasWithLayout, with the engine present
updateCanvasWithLayout(w0) ==
  Once({
    IF ~w.st.hasTranslation THEN [w EXCEPT !.el.canvas = Guides]
    ELSE Once({
           syncHiddenProps(
             [w EXCEPT !.st.currentLayout = layout,
                       !.st.actualFontSize = layout.fontSize,
                       !.el.canvas = IF layout.positions = <<>> THEN Guides
                                     ELSE [ positions |-> layout.positions,
                                            fontSize |-> layout.fontSize,
                                            fontFamily |-> FontFamilyOf(w.st.fontStyle),
                                            fontColor |-> w.st.fontColor ]])
           : layout \in {FitTextOf([ text |-> w.st.translatedText,
                                     ignoredFontSize |-> baseFontSize,
                                     fontFamily |-> FontFamilyOf(w.st.fontStyle),
                                     orientation |-> w.st.orientation ])} })
    : w \in {w0} })

\* switchToBlankImage: the main image gets the blank shirt's URL when the page
\* has one for the selected colour
switchToBlankImage(w0) ==
  Once({
    IF ~w.el.hasBlankUrl THEN w
      ELSE syncHiddenProps([w EXCEPT !.el.mainImage = [src |-> "blank", status |-> "loading"],
                                     !.st.isBlankImageActive = TRUE])
    : w \in {w0} })

updateMainImage(w0, imageSrc) ==
  Once({
    [w EXCEPT !.el.mainImage = [src |-> imageSrc, status |-> "loading"]]
    : w \in {w0} })

-----------------------------------------------------------------------------
(* bootstrapDesigner *)

\* waitForEngineThenStart(maxMs = 8000)
maxMs == 8000
\* setInterval(..., 100)
PollMs == 100

\* the page before the designer script runs
Boots ==
  [ phase : {"parsed"},
    section : BOOLEAN,                    \* document.querySelector(SECTION_SEL) finds it
    hasEngine : {FALSE},                  \* typeof window.TextLayoutEngine === 'function'
    tag : {"loading", "failed"},          \* the engine script element
    readyState : {"loading", "interactive"},
    resolved : {FALSE},
    gaveUp : {FALSE},                     \* the timeout or the error handler resolved the wait
    loadListener : {FALSE},
    errorListener : {FALSE},
    domListener : {FALSE},
    interval : {FALSE},
    elapsed : {0},                        \* Date.now() - startedAt
    lastTick : {0},
    started : {0},                        \* invocations of start()
    ranAfterGivingUp : {FALSE},           \* start() was invoked when gaveUp was set
    readyDispatched : {FALSE},
    designerReady : {"undefined"} ]
    \cup
  [ phase : {"parsed"}, section : BOOLEAN, hasEngine : {TRUE}, tag : {"loaded"},
    readyState : {"loading", "interactive"}, resolved : {FALSE}, gaveUp : {FALSE},
    loadListener : {FALSE}, errorListener : {FALSE}, domListener : {FALSE},
    interval : {FALSE}, elapsed : {0}, lastTick : {0}, started : {0},
    ranAfterGivingUp : {FALSE}, readyDispatched : {FALSE}, designerReady : {"undefined"} ]

InitBoot ==
  /\ engine = NewTextLayoutEngine(defaultCanvasWidth, defaultCanvasHeight)
  /\ measurer = [arial |-> 2, custom |-> 2]
  /\ ctxFont = DefaultFont
  /\ pc = "idle"
  /\ args = NoArgs
  /\ textArea = NoArea
  /\ currentFontSize = 0
  /\ bestLayout = NoLayout
  /\ attempts = 0
  /\ forceTwoLines = FALSE
  /\ tried = <<>>
  /\ result = NoLayout
  /\ exported = NotExported
  /\ ref = NoRef
  /\ probe = NoProbe
  /\ boot \in Boots
  /\ state = NoDesigner
  /\ els = NoElements
  /\ tasks = {}
  /\ submitted = NoSubmit

\* the variables of the engine's own calls
engineVars == <<engine, measurer, ctxFont, pc, locals, result, exported, ref, probe>>

\* start(), on the bootstrap record b: without the section it returns at once
start(b) ==
  /\ boot' = [b EXCEPT !.started = @ + 1,
                       !.ranAfterGivingUp = @ \/ b.gaveUp,
                       !.readyDispatched = @ \/ b.section]
  /\ IF b.section
     THEN /\ state' = ConstructorState
          /\ \E markup \in Markups : els' = PageElements(markup)
          /\ tasks' = ConstructedTasks
     ELSE UNCHANGED <<state, els, tasks>>

\* mutant: the check does not look at resolved
onReadyCheck_unguarded(b) ==
  IF b.hasEngine THEN start([b EXCEPT !.resolved = TRUE])
  ELSE /\ boot' = IF b.elapsed > maxMs
                  THEN [b EXCEPT !.resolved = TRUE, !.gaveUp = TRUE]
                  ELSE b
       /\ UNCHANGED <<state, els, tasks>>

\* onReadyCheck, on the bootstrap record b
onReadyCheck(b) ==
  IF b.resolved THEN boot' = b /\ UNCHANGED <<state, els, tasks>>
  ELSE IF b.hasEngine THEN start([b EXCEPT !.resolved = TRUE])
  ELSE /\ boot' = IF b.elapsed > maxMs
                  THEN [b EXCEPT !.resolved = TRUE, !.gaveUp = TRUE]
                  ELSE b
       /\ UNCHANGED <<state, els, tasks>>

\* the designer script runs: waitForEngineThenStart() up to its return, then
\* window.designerReady is created
RunScript ==
  /\ boot.phase = "parsed"
  /\ LET ran == [boot EXCEPT !.phase = "run", !.designerReady = "pending"] IN
     IF boot.hasEngine THEN start(ran)
     ELSE LET waiting == [ran EXCEPT !.loadListener = TRUE, !.errorListener = TRUE,
                                     !.interval = TRUE]
          IN IF boot.readyState = "loading"
             THEN /\ boot' = [waiting EXCEPT !.domListener = TRUE]
                  /\ UNCHANGED <<state, els, tasks>>
             ELSE onReadyCheck(waiting)
  /\ UNCHANGED <<engineVars, submitted>>

\* window.TextLayoutEngine gets defined by another copy of the engine script
EngineAppears ==
  /\ boot.phase = "run" /\ ~boot.hasEngine
  /\ boot' = [boot EXCEPT !.hasEngine = TRUE]
  /\ UNCHANGED <<engineVars, state, els, tasks, submitted>>

\* the engine script element runs and fires load
ScriptLoad ==
  /\ boot.phase = "run" /\ boot.tag = "loading"
  /\ LET loaded == [boot EXCEPT !.tag = "loaded", !.hasEngine = TRUE, !.loadListener = FALSE] IN
     IF boot.loadListener THEN onReadyCheck(loaded)
     ELSE boot' = loaded /\ UNCHANGED <<state, els, tasks>>
  /\ UNCHANGED <<engineVars, submitted>>

\* the engine script element fires error
ScriptError ==
  /\ boot.phase = "run" /\ boot.tag = "loading"
  /\ boot' = IF boot.errorListener /\ ~boot.resolved
             THEN [boot EXCEPT !.tag = "failed", !.resolved = TRUE, !.gaveUp = TRUE]
             ELSE [boot EXCEPT !.tag = "failed"]
  /\ UNCHANGED <<engineVars, state, els, tasks, submitted>>

\* the clock advances
TimePasses ==
  /\ boot.phase = "run" /\ boot.interval
  /\ boot.elapsed <= maxMs
  /\ boot' = [boot EXCEPT !.elapsed = @ + PollMs]
  /\ UNCHANGED <<engineVars, state, els, tasks, submitted>>

\* the interval's callback, at least 100 ms after the previous one
Tick ==
  /\ boot.phase = "run" /\ boot.interval
  /\ boot.elapsed >= boot.lastTick + PollMs
  /\ LET now == [boot EXCEPT !.lastTick = boot.elapsed] IN
     IF boot.resolved
     THEN boot' = [now EXCEPT !.interval = FALSE] /\ UNCHANGED <<state, els, tasks>>
     ELSE onReadyCheck(now)
  /\ UNCHANGED <<engineVars, submitted>>

\* DOMContentLoaded
DomContentLoaded ==
  /\ boot.phase = "run" /\ boot.readyState = "loading"
  /\ LET ready == [boot EXCEPT !.readyState = "interactive", !.domListener = FALSE] IN
     IF boot.domListener THEN onReadyCheck(ready)
     ELSE boot' = ready /\ UNCHANGED <<state, els, tasks>>
  /\ UNCHANGED <<engineVars, submitted>>

NextBoot ==
  \/ RunScript
  \/ EngineAppears
  \/ ScriptLoad
  \/ ScriptError
  \/ TimePasses
  \/ Tick
  \/ DomContentLoaded

SpecBoot == InitBoot /\ [][NextBoot]_vars

\* every event that is due is eventually delivered
FairBoot ==
  /\ SpecBoot
  /\ WF_vars(RunScript) /\ WF_vars(ScriptLoad) /\ WF_vars(TimePasses)
  /\ WF_vars(Tick) /\ WF_vars(DomContentLoaded)

-----------------------------------------------------------------------------
(* The designer's handlers and the continuations of its asynchronous functions *)

W == [st |-> state, el |-> els, tk |-> tasks]
Becomes(w) == state' = w.st /\ els' = w.el /\ tasks' = w.tk

\* a text one character longer than maxTextLength
LongText == [i \in 1..(maxTextLength + 1) |-> "a"]
\* what the user types, chooses and selects
InputTexts == {<<>>, <<"a">>, <<"b">>}
FontColors == {"#FFFFFF", "#000000"}
FontStyles == {"Yuji Syuku", "Huninn"}
Variants ==
  { [id |-> 1, available |-> TRUE, image |-> "featured"],
    [id |-> 2, available |-> FALSE, image |-> "other"] }
\* how a translation request ends
Outcomes == {"ok", "notOk", "unsuccessful", "throws"}

\* the page right after start() constructed the designer
InitDesigner ==
  /\ engine = NewTextLayoutEngine(defaultCanvasWidth, defaultCanvasHeight)
  /\ measurer = [arial |-> 2, custom |-> 2]
  /\ ctxFont = DefaultFont
  /\ pc = "idle"
  /\ args = NoArgs
  /\ textArea = NoArea
  /\ currentFontSize = 0
  /\ bestLayout = NoLayout
  /\ attempts = 0
  /\ forceTwoLines = FALSE
  /\ tried = <<>>
  /\ result = NoLayout
  /\ exported = NotExported
  /\ ref = NoRef
  /\ probe = NoProbe
  /\ boot = NoBoot
  /\ state = ConstructorState
  /\ \E markup \in Markups : els = PageElements(markup)
  /\ tasks = ConstructedTasks
  /\ submitted = NoSubmit

\* init() after its await of loadFonts: setInitialDefaults, bindEvents, updateUI
FontsReady ==
  /\ IsNull(submitted)
  /\ Task("init") \in tasks
  /\ Becomes([ updateFormProperties(updateAddToCartButton(updateTranslateButton(
                  updateCharCounter([ updateFormProperties([W EXCEPT !.tk = @ \ {Task("init")}])
                                      EXCEPT !.el.bound = TRUE ]))))
                EXCEPT !.el.canvas = IF @ = ClearCanvas THEN Guides ELSE @ ])
  /\ UNCHANGED <<engineVars, boot, submitted>>

\* the frame start() requested: updateCanvasWithLayout
FirstFrame ==
  /\ IsNull(submitted)
  /\ Task("frame") \in tasks
  /\ Becomes(updateCanvasWithLayout([W EXCEPT !.tk = @ \ {Task("frame")}]))
  /\ UNCHANGED <<engineVars, boot, submitted>>

\* handleTextInput, on an input event with the field holding value
HandleTextInput(T) ==
  /\ IsNull(submitted)
  /\ els.bound
  /\ \E value \in T \ {els.textInput} :
       IF Len(value) > maxTextLength
       THEN Becomes([W EXCEPT !.el.textInput = SubSeq(value, 1, maxTextLength)])
       ELSE Becomes(updateAddToCartButton(updateTranslateButton(hideError(hideTranslationResult(
              updateCharCounter([W EXCEPT !.st.originalText = value, !.el.textInput = value]))))))
  /\ UNCHANGED <<engineVars, boot, submitted>>

\* handleTranslate up to its await of fetch
handleTranslate(w0) ==
  Once({
    IF ~canTranslate(w) THEN w
    ELSE [ hideTranslationResult(hideError(setTranslatingState(w, TRUE)))
           EXCEPT !.tk = @ \cup {[ kind |-> "fetch", text |-> Trim(w.st.originalText),
                                   n |-> Cardinality({t \in w.tk : t.kind = "fetch"}) + 1 ]} ]
    : w \in {w0} })

\* a click on the translate button or on the retry button
HandleTranslate ==
  /\ IsNull(submitted)
  /\ els.bound
  /\ Becomes(handleTranslate(W))
  /\ UNCHANGED <<engineVars, boot, submitted>>

\* handleKeyPress, on Enter in the text field
HandleKeyPress ==
  /\ IsNull(submitted)
  /\ els.bound
  /\ IF canTranslate(W) THEN Becomes(handleTranslate(W)) ELSE UNCHANGED <<state, els, tasks>>
  /\ UNCHANGED <<engineVars, boot, submitted>>

\* handleTranslate from the response to its next await, or to its end
TranslationResponse ==
  /\ IsNull(submitted)
  /\ \E t \in tasks, outcome \in Outcomes :
       /\ t.kind = "fetch"
       /\ IF outcome = "ok"
          THEN Becomes([ switchToBlankImage(showTranslationResult(resetToDefaults(
                           [W EXCEPT !.tk = @ \ {t},
                                     !.st.translatedText = Translation(t.text),
                                     !.st.hasTranslation = TRUE]), Translation(t.text)))
                         EXCEPT !.tk = @ \cup {Task("translateFrame")} ])
          ELSE Becomes(setTranslatingState(
                 showError([W EXCEPT !.tk = @ \ {t}],
                           "Translation failed. Please try again."), FALSE))
  /\ UNCHANGED <<engineVars, boot, submitted>>

\* updateAllComponentsWithLayout after its animation frame, and the end of
\* handleTranslate unless syncHiddenProps has to wait for the image
TranslateFrame ==
  /\ IsNull(submitted)
  /\ Task("translateFrame") \in tasks
  /\ \E w1 \in {updateAddToCartButton(updateCanvasWithLayout(updateFontPreviewCards(
                    updateFormProperties([W EXCEPT !.tk = @ \ {Task("translateFrame")}]))))} :
       IF SyncWaits(w1)
       THEN Becomes([syncHiddenProps(w1) EXCEPT !.tk = @ \cup {Task("translateSync")}])
       ELSE Becomes(setTranslatingState(syncHiddenProps(w1), FALSE))
  /\ UNCHANGED <<engineVars, boot, submitted>>

\* the functions waiting for the main image's load or error event
ImageWaiters == {Task("mockup"), Task("translateSync"), Task("submitSync")}

\* the main image's load or error event: every waiting buildMockupDataUrl
\* resumes, and the functions awaiting them run to their end
imageSettles(status) ==
  Once({ IF Task("submitSync") \in tasks
         THEN [w2 EXCEPT !.el.cartText = "Adding...", !.el.cartDisabled = TRUE]
         ELSE w2
         : w2 \in { IF Task("translateSync") \in tasks THEN setTranslatingState(w1, FALSE) ELSE w1
                    : w1 \in { IF tasks \cap ImageWaiters # {} THEN WriteMockup(w0) ELSE w0
                               : w0 \in {[W EXCEPT !.el.mainImage.status = status,
                                                   !.tk = @ \ ImageWaiters]} } } })

ImageLoads ==
  /\ IsNull(submitted)
  /\ ~IsNull(els) /\ els.mainImage.status = "loading"
  /\ Becomes(imageSettles("loaded"))
  /\ UNCHANGED <<engineVars, boot, submitted>>

ImageFails ==
  /\ IsNull(submitted)
  /\ ~IsNull(els) /\ els.mainImage.status = "loading"
  /\ Becomes(imageSettles("broken"))
  /\ UNCHANGED <<engineVars, boot, submitted>>

HandleFontColorChange ==
  /\ IsNull(submitted)
  /\ els.bound
  /\ \E value \in FontColors \ {state.fontColor} :
       Becomes(syncHiddenProps(updateFormProperties(updateCanvasWithLayout(
         [W EXCEPT !.st.fontColor = value]))))
  /\ UNCHANGED <<engineVars, boot, submitted>>

HandleFontStyleChange ==
  /\ IsNull(submitted)
  /\ els.bound
  /\ \E value \in FontStyles \ {state.fontStyle} :
       Becomes(syncHiddenProps(updateFormProperties(updateCanvasWithLayout(
         [W EXCEPT !.st.fontStyle = value]))))
  /\ UNCHANGED <<engineVars, boot, submitted>>

HandleOrientationChange ==
  /\ IsNull(submitted)
  /\ els.bound
  /\ \E value \in Orientations \ {state.orientation} :
       Becomes(syncHiddenProps(updateFormProperties(updateCanvasWithLayout(
         [W EXCEPT !.st.orientation = value]))))
  /\ UNCHANGED <<engineVars, boot, submitted>>

\* handleVariantChange, the selected options matching variant
HandleVariantChange ==
  /\ IsNull(submitted)
  /\ els.bound
  /\ \E variant \in Variants \ {state.selectedVariant} :
       Becomes(syncHiddenProps(
         [ updateAvailability(
             IF state.hasTranslation
             THEN switchToBlankImage([W EXCEPT !.el.variantId = variant.id,
                                               !.st.isBlankImageActive = FALSE])
             ELSE updateMainImage([W EXCEPT !.el.variantId = variant.id,
                                            !.st.isBlankImageActive = FALSE], variant.image),
             variant.available)
           EXCEPT !.st.selectedVariant = variant ]))
  /\ UNCHANGED <<engineVars, boot>>
  /\ UNCHANGED submitted

\* handleFormSubmit's guard: if (!this.state.hasTranslation)
SubmitGuard(w) == ~w.st.hasTranslation

\* a submit event of the add-to-cart form, to the end of its dispatch: the
\* form is sent, unless the default was prevented, with the hidden inputs as
\* they then are.  The listener that calls handleFormSubmit is there once
\* bindEvents has run; init awaits loadFonts before it calls bindEvents.
HandleFormSubmit ==
  /\ IsNull(submitted)
  /\ ~IsNull(els)
  /\ IF ~els.bound
     THEN /\ submitted' = [ prevented |-> FALSE, hasTranslation |-> state.hasTranslation,
                            designParams |-> els.designParams,
                            previewDataUrl |-> els.previewDataUrl,
                            previewMockupUrl |-> els.previewMockupUrl ]
          /\ UNCHANGED <<state, els, tasks>>
     ELSE IF SubmitGuard(W)
     THEN /\ Becomes(showError(W, "Please translate your text before adding to cart."))
          /\ submitted' = [ prevented |-> TRUE, hasTranslation |-> state.hasTranslation,
                            designParams |-> Absent, previewDataUrl |-> Absent,
                            previewMockupUrl |-> Absent ]
     ELSE \E w1 \in {syncHiddenProps(W)} :
          /\ IF SyncWaits(W)
             THEN Becomes([w1 EXCEPT !.tk = @ \cup {Task("submitSync")}])
             ELSE Becomes([w1 EXCEPT !.el.cartText = "Adding...", !.el.cartDisabled = TRUE])
          /\ submitted' = [ prevented |-> FALSE, hasTranslation |-> state.hasTranslation,
                            designParams |-> w1.el.designParams,
                            previewDataUrl |-> w1.el.previewDataUrl,
                            previewMockupUrl |-> w1.el.previewMockupUrl ]
  /\ UNCHANGED <<engineVars, boot>>

\* the dispatch of the submit event is over
SubmitEnds ==
  /\ ~IsNull(submitted)
  /\ submitted' = NoSubmit
  /\ UNCHANGED <<engineVars, boot, state, els, tasks>>

\* The designer with the text field, the translation and the form; the
\* variant, the font colour, the font style and the orientation stay as
\* constructed.
NextDesigner ==
  \/ FontsReady
  \/ FirstFrame
  \/ HandleTextInput(InputTexts)
  \/ HandleTranslate
  \/ HandleKeyPress
  \/ TranslationResponse
  \/ TranslateFrame
  \/ ImageLoads
  \/ ImageFails
  \/ HandleFormSubmit
  \/ SubmitEnds

SpecDesigner == InitDesigner /\ [][NextDesigner]_vars

\* Fairness: every promise that can settle does: fonts get ready, frames
\* come, the translation service answers, and a loading image loads or fails.
\* the designer translating one text, or one that is too long, with fairness
TranslatedTexts == {<<"a">>, LongText}

NextTranslation ==
  \/ FontsReady
  \/ FirstFrame
  \/ HandleTextInput(TranslatedTexts)
  \/ HandleTranslate
  \/ TranslationResponse
  \/ TranslateFrame
  \/ ImageLoads
  \/ ImageFails

FairDesigner ==
  /\ InitDesigner /\ [][NextTranslation]_vars
  /\ WF_vars(FontsReady) /\ WF_vars(FirstFrame)
  /\ WF_vars(TranslationResponse) /\ WF_vars(TranslateFrame)
  /\ WF_vars(ImageLoads \/ ImageFails)

\* The designer with the option inputs: one text, every option handler, the
\* variants and the translation; the form is not submitted.
OptionTexts == {<<"a">>}

\* a page whose main image has loaded and that has no blank shirt images
InitOptions ==
  /\ engine = NewTextLayoutEngine(defaultCanvasWidth, defaultCanvasHeight)
  /\ measurer = [arial |-> 2, custom |-> 2]
  /\ ctxFont = DefaultFont
  /\ pc = "idle"
  /\ args = NoArgs
  /\ textArea = NoArea
  /\ currentFontSize = 0
  /\ bestLayout = NoLayout
  /\ attempts = 0
  /\ forceTwoLines = FALSE
  /\ tried = <<>>
  /\ result = NoLayout
  /\ exported = NotExported
  /\ ref = NoRef
  /\ probe = NoProbe
  /\ boot = NoBoot
  /\ state = ConstructorState
  /\ els = PageElements([cartDisabled |-> TRUE, image |-> "loaded", blankUrl |-> FALSE])
  /\ tasks = ConstructedTasks
  /\ submitted = NoSubmit

NextOptions ==
  \/ FontsReady
  \/ FirstFrame
  \/ HandleTextInput(OptionTexts)
  \/ HandleTranslate
  \/ TranslationResponse
  \/ TranslateFrame
  \/ ImageLoads
  \/ ImageFails
  \/ HandleFontColorChange
  \/ HandleFontStyleChange
  \/ HandleOrientationChange
  \/ HandleVariantChange

SpecOptions == InitOptions /\ [][NextOptions]_vars

-----------------------------------------------------------------------------
(* Vocabulary of the properties *)

\* a fitText call is past its empty-text guard, or has returned
InFitText == pc \in {"loop", "fit", "exhausted", "done"}

\* the text is missing, empty or whitespace only
Blank(text) == text = Undefined \/ \A i \in 1..Len(text) : text[i] = " "

\* the call in progress, or the last call, was made with a non-blank text
NonBlankCall == InFitText /\ ~Blank(args.text)

Returned == pc = "done" /\ ~Blank(args.text)

\* ceil((baseFontSize - minFontSize) / scaleStep) + 5
AttemptBound == ((baseFontSize - minFontSize + scaleStep - 1) \div scaleStep) + 5

\* no candidate of the call passed the fit check
NoneFits == tried # <<>> /\ \A i \in 1..Len(tried) : ~tried[i].fits

\* the text area of the constructor's configuration
ExpectedTextArea(orientation) ==
  [ x |-> Px(mappingX + marginPx),
    y |-> Px(mappingY + marginPx),
    width |-> Px(mappingWidth - 2 * marginPx),
    height |-> Px(mappingHeight - 2 * marginPx),
    orientation |-> orientation ]

WasExported == "none" \notin DOMAIN exported

-----------------------------------------------------------------------------
(* Properties *)

\* C1: the candidate sizes tried by the scaling loop start at baseFontSize, are
\* strictly decreasing in steps of exactly scaleStep, never go below minFontSize,
\* none is tried after a candidate that fits, and the returned layout has the
\* size of the first fitting candidate.
C1_MonotonicSearch ==
  /\ \A i \in 1..Len(tried) :
       /\ tried[i].fontSize >= minFontSize
       /\ (i = 1) => tried[i].fontSize = baseFontSize
       /\ (i > 1) => /\ tried[i].fontSize < tried[i - 1].fontSize
                     /\ tried[i - 1].fontSize - tried[i].fontSize = scaleStep
                     /\ ~tried[i - 1].fits
  /\ (Returned /\ tried # <<>> /\ tried[Len(tried)].fits)
       => result.fontSize = tried[Len(tried)].fontSize

\* a call returned a size that fits after two larger candidates failed
C1_Witness ==
  /\ Returned /\ Len(tried) >= 3 /\ tried[Len(tried)].fits
  /\ result.fontSize = baseFontSize - scaleStep * (Len(tried) - 1)

\* C2: the number of layout attempts of a call, and the scalingAttempts it
\* returns, never exceed ceil((baseFontSize - minFontSize) / scaleStep) + 5.
C2_AttemptBound ==
  /\ attempts <= AttemptBound
  /\ Returned => result.metadata.scalingAttempts <= AttemptBound

\* a call that tried every candidate size from baseFontSize down to minFontSize
C2_Witness ==
  Returned /\ result.metadata.scalingAttempts = ((baseFontSize - minFontSize) \div scaleStep) + 1

\* C3: the scaling loop terminates: the number of attempts still allowed is a
\* natural number that every iteration decreases, and every run of the loop
\* reaches "perfect fit found" or "search exhausted", and then returns.
C3_LoopTerminates ==
  /\ [](pc = "loop" => (AttemptBound - attempts) \in Nat)
  /\ [][(pc = "loop" /\ pc' = "loop") => (AttemptBound - attempts') < (AttemptBound - attempts)]_vars
  /\ ((pc = "loop") ~> (pc \in {"fit", "exhausted"}))
  /\ ((pc \in {"fit", "exhausted"}) ~> (pc = "done"))

\* the search was exhausted after every candidate size had been tried
C3_Witness == pc = "exhausted" /\ Len(tried) > 1 /\ currentFontSize < minFontSize

\* C4: with a non-blank text and a supported orientation fitText never throws
\* and returns a layout with at least one line and one position.
C4_NeverThrows ==
  /\ (pc = "threw") => args.orientation \notin {"horizontal", "vertical"}
  /\ Returned => /\ ~IsNull(result)
                 /\ Len(result.lines) >= 1
                 /\ Len(result.positions) >= 1

\* a single unbreakable word, wider than the area at every size, was laid out
C4_Witness ==
  /\ Returned /\ NoneFits
  /\ args.orientation = "horizontal" /\ ~HasSpace(args.text)
  /\ \A i \in 1..Len(tried) : tried[i].lines = <<args.text>>

\* C4, second case: a layout was returned under the measurer of zero widths
C4_WitnessZeroWidth == Returned /\ measurer.arial = 0 /\ measurer.custom = 0

\* C5: when no candidate passes the fit check, the returned layout has
\* fontSize equal to minFontSize.
C5_DegradesToMinFontSize ==
  (Returned /\ NoneFits) => result.fontSize = minFontSize

\* C6: when no candidate passes the fit check, the returned layout is the
\* attempt with the largest font size, the first such attempt on ties.
C6_LargestAttemptKept ==
  (Returned /\ NoneFits) =>
    \E k \in 1..Len(tried) :
      /\ \A j \in 1..Len(tried) : tried[j].fontSize <= tried[k].fontSize
      /\ \A j \in 1..(k - 1) : tried[j].fontSize < tried[k].fontSize
      /\ result.fontSize = tried[k].fontSize
      /\ result.lines = tried[k].lines

\* no candidate of a whole search from baseFontSize to minFontSize fitted
C6_Witness == Returned /\ NoneFits /\ tried[Len(tried)].fontSize = minFontSize

\* C7: a call with missing, empty or whitespace-only text returns the empty
\* layout of the requested orientation (no lines, no positions, metadata.empty,
\* the orientation's text area) and makes no layout attempt.
C7_EmptyText ==
  /\ pc \in {"loop", "fit", "exhausted"} => ~Blank(args.text)
  /\ (pc = "done" /\ Blank(args.text)) =>
       /\ result.lines = <<>>
       /\ result.positions = <<>>
       /\ "empty" \in DOMAIN result.metadata
       /\ result.metadata.empty = TRUE
       /\ result.textArea = ExpectedTextArea(args.orientation)
       /\ attempts = 0
       /\ tried = <<>>

\* a whitespace-only text was answered in vertical orientation
C7_Witness ==
  pc = "done" /\ args.text = <<" ", " ">> /\ args.orientation = "vertical" /\ ~IsNull(result)

\* C8: exportForPrintful returns null exactly when it is given no layout or
\* the empty layout; for a layout fitText returned for a non-blank text it
\* returns an export object.
C8_ExportNull ==
  WasExported =>
    /\ IsNull(exported) <=> (IsNull(result) \/ (result.lines = <<>> /\ result.positions = <<>>))
    /\ Returned => ~IsNull(exported)

\* the empty layout was exported
C8_Witness ==
  pc = "done" /\ Blank(args.text) /\ ~IsNull(result) /\ WasExported /\ IsNull(exported)

\* C9: a call with the text, orientation and font family of a remembered
\* earlier call returns the layout that call returned, whatever was called
\* in between.
C9_Idempotent ==
  (pc = "done" /\ ~IsNull(ref) /\ ref.args = args) => result = ref.result

\* a call was repeated after another call, and returned a two-line layout
C9_Witness ==
  /\ pc = "done" /\ ~IsNull(ref) /\ ref.later = 2 /\ ref.args = args
  /\ ~IsNull(result) /\ Len(result.lines) = 2

\* the precondition of C10: horizontal, whitespace in the text, and the
\* trimmed text at baseFontSize wider than the text area
BaseLineOverflows ==
  /\ NonBlankCall
  /\ args.orientation = "horizontal"
  /\ HasSpace(args.text)
  /\ MeasureText(Trim(args.text), SetFont(baseFontSize, args.fontFamily))
       > ExpectedTextArea("horizontal").width

\* some split of the words leaves two halves that both fit the area at this size
SomeSplitFits(text, fontSize, fontFamily) ==
  LET words == SplitWords(Trim(text))
      font == SetFont(fontSize, fontFamily)
      width == ExpectedTextArea("horizontal").width
  IN \E k \in 1..(Len(words) - 1) :
       /\ MeasureText(JoinWords(SubSeq(words, 1, k)), font) <= width
       /\ MeasureText(JoinWords(SubSeq(words, k + 1, Len(words))), font) <= width

\* C10 as claimed: under the precondition every candidate layout has two lines.
C10_AlwaysTwoLines ==
  BaseLineOverflows => \A i \in 1..Len(tried) : Len(tried[i].lines) = 2

\* C10 as amended: under the precondition a candidate layout has two lines
\* exactly when some split of the words fits the area at that size, also
\* where the whole text would fit on one line; otherwise it is the single
\* line of the trimmed text.
C10_TwoLinesWhenSplitFits ==
  BaseLineOverflows =>
    \A i \in 1..Len(tried) :
      IF SomeSplitFits(args.text, tried[i].fontSize, args.fontFamily)
      THEN Len(tried[i].lines) = 2
      ELSE tried[i].lines = <<Trim(args.text)>>

\* a two-line candidate at a size where the whole text fits on one line
C10_Witness ==
  /\ BaseLineOverflows
  /\ \E i \in 1..Len(tried) :
       /\ Len(tried[i].lines) = 2
       /\ MeasureText(Trim(args.text), SetFont(tried[i].fontSize, args.fontFamily))
            <= ExpectedTextArea("horizontal").width

\* the scenario of C11: HELLO WORLD, horizontal, a text area 160px wide, and a
\* measurer proportional to font size and character count that gives the
\* whole text 275px at baseFontSize
HelloWorldScenario ==
  /\ pc = "done"
  /\ args.text = HelloWorld
  /\ args.orientation = "horizontal"
  /\ getTextArea("horizontal").width = Px(160)
  /\ engine.config.baseFontSize = baseFontSize
  /\ engine.config.minFontSize = minFontSize
  /\ engine.config.scaleStep = scaleStep
  /\ "perChar" \in DOMAIN measurer
  /\ MeasureText(HelloWorld, SetFont(baseFontSize, args.fontFamily)) = Px(275)

\* C11: in the HELLO WORLD scenario fitText returns a layout of exactly two
\* lines, each at most 160px wide at the chosen size, with wasTruncated false.
C11_HelloWorld ==
  HelloWorldScenario =>
    /\ Len(result.lines) = 2
    /\ \A i \in 1..Len(result.lines) :
         MeasureText(result.lines[i], SetFont(result.fontSize, args.fontFamily)) <= Px(160)
    /\ result.metadata.wasTruncated = FALSE

\* the scenario's call returned HELLO over WORLD at the base size
C11_Witness ==
  /\ HelloWorldScenario
  /\ result.lines = <<SubSeq(HelloWorld, 1, 5), SubSeq(HelloWorld, 7, 11)>>
  /\ result.fontSize = baseFontSize

\* the line breaker was called directly
BreakerCalled == ~IsNull(probe) /\ probe.op = "breakLines"

\* the words of the text given to the breaker, and the font it measures with
ProbeWords == SplitWords(Trim(probe.text))
ProbeFont == SetFont(probe.fontSize, probe.fontFamily)

\* the two halves of the split at index k
LeftOf(words, k) == JoinWords(SubSeq(words, 1, k))
RightOf(words, k) == JoinWords(SubSeq(words, k + 1, Len(words)))

\* both halves of the split at index k are no wider than the area
SplitFits(words, k, font, width) ==
  MeasureText(LeftOf(words, k), font) <= width /\ MeasureText(RightOf(words, k), font) <= width

\* |width(left) - width(right)| of the split at index k
SplitScore(words, k, font) ==
  LET wL == MeasureText(LeftOf(words, k), font)
      wR == MeasureText(RightOf(words, k), font)
  IN IF wL >= wR THEN wL - wR ELSE wR - wL

\* the split indices whose halves both fit
FittingSplits(words, font, width) ==
  {k \in 1..(Len(words) - 1) : SplitFits(words, k, font, width)}

\* the call got as far as the balanced split search: the one-line shortcut
\* was not taken, and neither was the first-word split of a forced call
ReachedBalancedSearch ==
  /\ BreakerCalled
  /\ ~(~probe.force /\ MeasureText(Trim(probe.text), ProbeFont) <= probe.area.width)
  /\ ~(probe.force /\ Len(ProbeWords) >= 2 /\ SplitFits(ProbeWords, 1, ProbeFont, probe.area.width))

\* C12: the balanced split search returns, among the split indices whose two
\* halves both fit the area width, one of minimal |width(left) - width(right)|,
\* and among those of minimal score the lowest index.
C12_BalancedSplit ==
  (ReachedBalancedSearch /\ FittingSplits(ProbeWords, ProbeFont, probe.area.width) # {}) =>
    \E k \in FittingSplits(ProbeWords, ProbeFont, probe.area.width) :
      /\ probe.out = <<LeftOf(ProbeWords, k), RightOf(ProbeWords, k)>>
      /\ \A j \in FittingSplits(ProbeWords, ProbeFont, probe.area.width) :
           /\ SplitScore(ProbeWords, k, ProbeFont) <= SplitScore(ProbeWords, j, ProbeFont)
           /\ SplitScore(ProbeWords, k, ProbeFont) = SplitScore(ProbeWords, j, ProbeFont) => k <= j

\* two fitting splits tie on the minimal score and the lower index was returned
C12_Witness ==
  /\ ReachedBalancedSearch
  /\ \E k, j \in FittingSplits(ProbeWords, ProbeFont, probe.area.width) :
       /\ k < j
       /\ SplitScore(ProbeWords, k, ProbeFont) = SplitScore(ProbeWords, j, ProbeFont)
       /\ \A i \in FittingSplits(ProbeWords, ProbeFont, probe.area.width) :
            SplitScore(ProbeWords, k, ProbeFont) <= SplitScore(ProbeWords, i, ProbeFont)
       /\ probe.out = <<LeftOf(ProbeWords, k), RightOf(ProbeWords, k)>>

\* C12, second case: the split of minimal score is not the lowest fitting index
C12_WitnessNotFirst ==
  /\ ReachedBalancedSearch
  /\ \E k, j \in FittingSplits(ProbeWords, ProbeFont, probe.area.width) :
       /\ j < k
       /\ probe.out = <<LeftOf(ProbeWords, k), RightOf(ProbeWords, k)>>

\* C13: the horizontal line breaker returns exactly one or exactly two lines,
\* so every layout fitText builds or returns outside vertical orientation has
\* one or two lines.
C13_OneOrTwoLines ==
  /\ BreakerCalled => Len(probe.out) \in {1, 2}
  /\ (InFitText /\ args.orientation # "vertical") =>
       /\ \A i \in 1..Len(tried) : Len(tried[i].lines) \in {1, 2}
       /\ (pc = "done" /\ ~Blank(args.text)) => Len(result.lines) \in {1, 2}

\* the breaker put three or more words on two lines
C13_Witness == BreakerCalled /\ Len(ProbeWords) >= 3 /\ Len(probe.out) = 2

\* C13, second case: fitText returned a horizontal layout of two lines
C13_WitnessFitText ==
  pc = "done" /\ ~Blank(args.text) /\ args.orientation = "horizontal" /\ Len(result.lines) = 2

\* C14: in horizontal orientation a candidate passes checkLayoutFits exactly
\* when its lines times its line height are within the text area's height and
\* every line, measured with the font family and font size the layout was
\* built with, is no wider than the text area.
C14_FitsIffBuiltFontFits ==
  (InFitText /\ args.orientation = "horizontal") =>
    \A i \in 1..Len(tried) :
      tried[i].fits <=>
        /\ Len(tried[i].lines) * tried[i].fontSize * engine.config.lineSpacing <= textArea.height
        /\ \A k \in 1..Len(tried[i].lines) :
             MeasureText(tried[i].lines[k], SetFont(tried[i].fontSize, args.fontFamily))
               <= textArea.width

\* the number of characters of a text that are not whitespace
CharacterCount(text) == Cardinality({i \in 1..Len(text) : ~IsSpace(text[i])})

\* characterCount * lineHeight * charSpacingMultiplier <= textArea.height, with
\* lineHeight = fontSize * lineSpacing (1.1 * 0.85 = 0.935)
VerticalFits(count, fontSize) ==
  count * fontSize * ((1100 * 850) \div 1000) <= ExpectedTextArea("vertical").height

\* the candidate sizes of the search
CandidateSizes ==
  {size \in minFontSize..baseFontSize : (baseFontSize - size) % scaleStep = 0}

\* the size the search settles on for a column of count characters: the
\* largest candidate that fits, the first candidate when none does
VerticalChosenSize(count) ==
  IF \E size \in CandidateSizes : VerticalFits(count, size)
  THEN CHOOSE size \in CandidateSizes :
         /\ VerticalFits(count, size)
         /\ \A other \in CandidateSizes : VerticalFits(count, other) => other <= size
  ELSE baseFontSize

\* C15: in vertical orientation a candidate passes checkLayoutFits exactly when
\* characterCount * lineHeight * charSpacingMultiplier <= textArea.height; the
\* verdict, and the font size fitText returns, depend on no measured width.
C15_VerticalFitByHeight ==
  (NonBlankCall /\ args.orientation = "vertical") =>
    /\ \A i \in 1..Len(tried) :
         /\ Len(tried[i].lines) = 1
         /\ Len(tried[i].lines[1]) = CharacterCount(args.text)
         /\ tried[i].fits <=> VerticalFits(CharacterCount(args.text), tried[i].fontSize)
    /\ pc = "done" => result.fontSize = VerticalChosenSize(CharacterCount(args.text))

\* a column whose characters are wider than the text area was accepted
C15_Witness ==
  /\ Returned /\ args.orientation = "vertical"
  /\ tried[Len(tried)].fits
  /\ MeasureText(<<result.lines[1][1]>>, SetFont(result.fontSize, args.fontFamily))
       > textArea.width

\* C15, second case: a long column was accepted at a smaller size
C15_WitnessSmaller ==
  /\ Returned /\ args.orientation = "vertical"
  /\ tried[Len(tried)].fits /\ result.fontSize < baseFontSize
  /\ measurer.custom > 0

\* the vertical normalizer was called directly
CleanerCalled == ~IsNull(probe) /\ probe.op = "cleanTextForVertical"

\* the index in text of its n-th character that is not whitespace
NthCharacter(text, n) ==
  CHOOSE j \in 1..Len(text) :
    /\ ~IsSpace(text[j])
    /\ Cardinality({k \in 1..(j - 1) : ~IsSpace(text[k])}) = n - 1

AreaMethodCalled == ~IsNull(probe) /\ probe.op \in {"getTextArea", "createEmptyLayout"}

\* C17: for an orientation other than 'horizontal' and 'vertical', getTextArea,
\* createEmptyLayout and fitText (with empty or non-empty text) raise an error
\* instead of returning a result.
C17_UnsupportedAlwaysThrows ==
  /\ (AreaMethodCalled /\ probe.orientation \notin {"horizontal", "vertical"}) => probe.threw
  /\ (pc # "idle" /\ args.orientation \notin {"horizontal", "vertical"}) => pc = "threw"

\* the area-mapping rectangle of a supported orientation shrunk by the margins
ShrunkByMargins(orientation) ==
  [ x |-> engine.config.canvasMapping[orientation].x + engine.config.margins.left,
    y |-> engine.config.canvasMapping[orientation].y + engine.config.margins.top,
    width |-> engine.config.canvasMapping[orientation].width
                - (engine.config.margins.left + engine.config.margins.right),
    height |-> engine.config.canvasMapping[orientation].height
                 - (engine.config.margins.top + engine.config.margins.bottom),
    orientation |-> orientation ]

\* C18: for a supported orientation getTextArea returns the area-mapping
\* rectangle shrunk by the four margins and tagged with the orientation, and
\* the call changes nothing in the engine's configuration.
C18_TextAreaShrunkByMargins ==
  /\ []((~IsNull(probe) /\ probe.op = "getTextArea"
          /\ probe.orientation \in {"horizontal", "vertical"})
        => (~probe.threw /\ probe.out = ShrunkByMargins(probe.orientation)))
  /\ [][GetTextArea => engine' = engine]_vars

\* getTextArea was called on an engine whose four margins differ
C18_Witness ==
  /\ ~IsNull(probe) /\ probe.op = "getTextArea" /\ probe.orientation = "vertical"
  /\ engine.config.margins.left # engine.config.margins.right
  /\ engine.config.margins.top # engine.config.margins.bottom
  /\ probe.out.width = Px(160)

\* C19: a call of fitText changes nothing in the engine, and what it returns is
\* a function of its arguments and the configuration: the same as on a fresh
\* measuring context, whatever calls were made before and whatever font they
\* left the context in.
C19_FitTextIndependent ==
  /\ [](pc = "done" => result = FitTextOf(args))
  /\ [][engine' = engine /\ measurer' = measurer]_vars

\* a call that needed more than one attempt returned; it is the second call
\* after a remembered call that had other arguments
C19_Witness ==
  /\ pc = "done" /\ ~IsNull(ref) /\ ref.later = 2 /\ ref.args # args
  /\ ~Blank(args.text) /\ Len(tried) >= 2

\* C20: the fits and fitsInPrintArea fields of a returned layout are true only
\* if the layout passed the fit check, and false for a best-effort layout that
\* overflows.
C20_FitsFieldTruthful ==
  Returned =>
    /\ (result.fits \/ result.fitsInPrintArea) => tried[Len(tried)].fits
    /\ NoneFits => (~result.fits /\ ~result.fitsInPrintArea)

\* p thousandths of a pixel in hundred-thousandths of an inch: p * (12 / 600)
InchesOf(p) == p * ((printWidthInches * 100) \div defaultCanvasWidth)

\* a size of whole pixels in thousandths of a point: size * 72 / 96
PointsOf(size) == size * 750

\* C21: the export of a non-empty layout has one text element per Position, in
\* order, with x and y the inches of the position's coordinates minus the
\* origin of the orientation's area-mapping rectangle, width and height the
\* inches of the position's, and fontSize the points of the layout's font size.
C21_ExportElements ==
  (Returned /\ WasExported) =>
    /\ ~IsNull(exported)
    /\ Len(exported.textElements) = Len(result.positions)
    /\ \A i \in 1..Len(result.positions) :
         /\ exported.textElements[i].text = result.positions[i].line
         /\ exported.textElements[i].x = InchesOf(result.positions[i].x - Px(mappingX))
         /\ exported.textElements[i].y = InchesOf(result.positions[i].y - Px(mappingY))
         /\ exported.textElements[i].width = InchesOf(result.positions[i].width)
         /\ exported.textElements[i].height = InchesOf(result.positions[i].height)
         /\ exported.textElements[i].fontSize = PointsOf(result.fontSize)

\* a vertical layout of three characters was exported, below the mapping's origin
C21_Witness ==
  /\ Returned /\ WasExported /\ args.orientation = "vertical"
  /\ Len(exported.textElements) = 3
  /\ exported.textElements[1].y > 0
  /\ exported.textElements[3].y > exported.textElements[1].y

\* C21, second case: a horizontal layout of two lines was exported
C21_WitnessTwoLines ==
  /\ Returned /\ WasExported /\ args.orientation = "horizontal"
  /\ Len(exported.textElements) = 2

\* C22: the layout fitText returns for a non-blank text has metadata.baseFontSize
\* the configured base size, metadata.finalSize its own font size,
\* metadata.scalingAttempts the number of candidate sizes tried in the call,
\* and metadata.orientation the requested orientation.
C22_MetadataStamped ==
  Returned =>
    /\ result.metadata.baseFontSize = baseFontSize
    /\ result.metadata.finalSize = result.fontSize
    /\ result.metadata.scalingAttempts = Len(tried)
    /\ result.metadata.scalingAttempts = attempts
    /\ result.metadata.orientation = args.orientation

\* a candidate below the base size fitted after at least two others failed,
\* and was returned with its metadata
C22_Witness ==
  /\ Returned /\ tried[Len(tried)].fits
  /\ result.metadata.finalSize < result.metadata.baseFontSize
  /\ result.metadata.scalingAttempts >= 3

\* C23: forceTwoLines is true exactly when the orientation is horizontal, the
\* text contains whitespace and the trimmed text at baseFontSize is wider than
\* the text area; it keeps its value from before the loop to the return, and
\* every candidate of the loop was built with that value.
C23_ForceTwoLinesOnce ==
  /\ [](NonBlankCall => (forceTwoLines <=> BaseLineOverflows))
  /\ [][(pc \in {"loop", "fit", "exhausted"}) => forceTwoLines' = forceTwoLines]_vars
  /\ []((NonBlankCall /\ args.orientation = "horizontal") =>
          \A i \in 1..Len(tried) :
            tried[i].lines = createHorizontalLinesWithSpaceBreaking(
                               args.text, tried[i].fontSize, args.fontFamily, ctxFont,
                               textArea, forceTwoLines))

\* the flag was set at the base size and was still set at a later candidate
\* size at which the trimmed text fits on one line
C23_Witness ==
  /\ pc = "loop" /\ forceTwoLines /\ Len(tried) >= 1
  /\ MeasureText(Trim(args.text), SetFont(currentFontSize, args.fontFamily)) <= textArea.width

\* C23, second case: the only whitespace is at the end of the text
C23_WitnessTrailingBlank ==
  /\ NonBlankCall /\ forceTwoLines
  /\ ~HasSpace(Trim(args.text))

\* the split of the words at index k, as two lines
TwoLines(words, k) == <<LeftOf(words, k), RightOf(words, k)>>

\* C24: a forced call on a text of at least two words returns the split after
\* the first word whenever both its halves fit the area width, even if another
\* fitting split is more balanced; when it does not fit, the result is that of
\* the balanced split search.
C24_FirstWordSplitPreferred ==
  (BreakerCalled /\ probe.force /\ Len(ProbeWords) >= 2) =>
    IF SplitFits(ProbeWords, 1, ProbeFont, probe.area.width)
    THEN probe.out = TwoLines(ProbeWords, 1)
    ELSE IF FittingSplits(ProbeWords, ProbeFont, probe.area.width) = {}
    THEN probe.out = <<Trim(probe.text)>>
    ELSE \E k \in FittingSplits(ProbeWords, ProbeFont, probe.area.width) :
           /\ probe.out = TwoLines(ProbeWords, k)
           /\ \A j \in FittingSplits(ProbeWords, ProbeFont, probe.area.width) :
                SplitScore(ProbeWords, k, ProbeFont) <= SplitScore(ProbeWords, j, ProbeFont)

\* the first-word split was returned although a later split is more balanced
C24_Witness ==
  /\ BreakerCalled /\ probe.force /\ Len(ProbeWords) >= 3
  /\ probe.out = TwoLines(ProbeWords, 1)
  /\ \E k \in FittingSplits(ProbeWords, ProbeFont, probe.area.width) :
       SplitScore(ProbeWords, k, ProbeFont) < SplitScore(ProbeWords, 1, ProbeFont)

\* C24, second case: the first-word split did not fit and a later split was returned
C24_WitnessFallThrough ==
  /\ BreakerCalled /\ probe.force /\ Len(ProbeWords) >= 3
  /\ ~SplitFits(ProbeWords, 1, ProbeFont, probe.area.width)
  /\ Len(probe.out) = 2

\* C25: when the text has fewer than two words, or no split leaves two halves
\* that both fit the area width, the breaker returns the trimmed text as one
\* line, overflowing or not, forced or not; no line of a two-line result is
\* wider than the area.
C25_SingleLineFallback ==
  BreakerCalled =>
    /\ (Len(ProbeWords) < 2 \/ FittingSplits(ProbeWords, ProbeFont, probe.area.width) = {})
         => probe.out = <<Trim(probe.text)>>
    /\ Len(probe.out) = 2 =>
         \A i \in 1..2 : MeasureText(probe.out[i], ProbeFont) <= probe.area.width

\* a forced call on several words none of whose splits fits returned the
\* overflowing trimmed text
C25_Witness ==
  /\ BreakerCalled /\ probe.force /\ Len(ProbeWords) >= 2
  /\ FittingSplits(ProbeWords, ProbeFont, probe.area.width) = {}
  /\ probe.out = <<Trim(probe.text)>>
  /\ MeasureText(Trim(probe.text), ProbeFont) > probe.area.width

\* C25, second case: a single overflowing word, not forced
C25_WitnessOneWord ==
  /\ BreakerCalled /\ ~probe.force /\ Len(ProbeWords) = 1
  /\ probe.out = <<Trim(probe.text)>>
  /\ MeasureText(Trim(probe.text), ProbeFont) > probe.area.width

\* the invariant of the configuration
ConfigInvariant ==
  engine.config.minFontSize <= engine.config.baseFontSize /\ engine.config.scaleStep > 0

\* C26: with minFontSize <= baseFontSize and scaleStep > 0 the scaling loop
\* makes at least one attempt, a best layout exists when the loop ends, and
\* what is returned is a candidate of the loop, never the layout of the
\* minFontSize fallback after it.
C26_FallbackNeverTaken ==
  ConfigInvariant =>
    /\ (pc \in {"fit", "exhausted"}) =>
         (attempts >= 1 /\ Len(tried) >= 1 /\ ~IsNull(bestLayout))
    /\ (pc = "done" /\ ~Blank(args.text)) =>
         \E i \in 1..Len(tried) :
           tried[i].fontSize = result.fontSize /\ tried[i].lines = result.lines

\* with minFontSize = baseFontSize the loop ended after its only attempt,
\* which did not fit
C26_Witness ==
  /\ engine.config.minFontSize = engine.config.baseFontSize
  /\ pc = "exhausted" /\ attempts = 1 /\ ~IsNull(bestLayout)

\* the whitespace-separated words of the returned lines, in order
WordsOfLines(lines) ==
  IF Len(lines) = 1 THEN SplitWords(lines[1])
  ELSE SplitWords(lines[1]) \o SplitWords(lines[2])

\* C27 as claimed: for every input the words of the returned lines, in order,
\* are the words of the trimmed input, and every returned line is non-empty.
C27_BreaksOnlyAtWhitespace ==
  BreakerCalled =>
    /\ WordsOfLines(probe.out) = SplitWords(Trim(probe.text))
    /\ \A i \in 1..Len(probe.out) : probe.out[i] # <<>>

\* C27 as amended: for every input the words of the returned lines, in order,
\* are the words of the trimmed input; every returned line is non-empty when
\* the input has a character that is not whitespace, and for an empty or
\* whitespace-only input the result is one empty line.
C27_WordsKeptLinesNonEmptyUnlessBlank ==
  BreakerCalled =>
    /\ WordsOfLines(probe.out) = SplitWords(Trim(probe.text))
    /\ IF \E i \in 1..Len(probe.text) : ~IsSpace(probe.text[i])
       THEN \A i \in 1..Len(probe.out) : probe.out[i] # <<>>
       ELSE probe.out = << <<>> >>

\* a text with leading and doubled blanks was broken into two lines
C27_Witness ==
  /\ BreakerCalled /\ Len(probe.out) = 2
  /\ IsSpace(probe.text[1])
  /\ Len(probe.text) > Len(probe.out[1]) + Len(probe.out[2]) + 2

\* the width ctx.measureText gives a line of the returned layout, in the font
\* the layout's positions were computed with
LineWidthOf(line) == MeasureText(line, SetFont(result.fontSize, args.fontFamily))

\* C28: a returned horizontal layout has one Position per line, in line order;
\* the i-th (from 0) has y = textArea.y + fontSize * 1.6 + i * lineHeight and
\* x = textArea.x + (textArea.width - lineWidth) / 2, with useReducedSpacing
\* true and letterSpacingReduction = fontSize * 0.10, where lineHeight =
\* fontSize * lineSpacing.
C28_HorizontalPositions ==
  (Returned /\ args.orientation = "horizontal") =>
    /\ Len(result.positions) = Len(result.lines)
    /\ result.lineHeight = result.fontSize * engine.config.lineSpacing
    /\ \A i \in 1..Len(result.lines) :
         /\ result.positions[i].line = result.lines[i]
         /\ result.positions[i].y =
              result.textArea.y + result.fontSize * 1600 + (i - 1) * result.lineHeight
         /\ result.positions[i].x =
              result.textArea.x + (result.textArea.width - LineWidthOf(result.lines[i])) \div 2
         /\ result.positions[i].useReducedSpacing = TRUE
         /\ result.positions[i].letterSpacingReduction = result.fontSize * 100

\* a horizontal layout of two lines of different widths was returned, both
\* lines narrower than the text area
C28_Witness ==
  /\ Returned /\ args.orientation = "horizontal" /\ Len(result.lines) = 2
  /\ LineWidthOf(result.lines[1]) # LineWidthOf(result.lines[2])
  /\ result.positions[1].x > result.textArea.x
  /\ result.positions[2].x > result.textArea.x
  /\ result.positions[2].y > result.positions[1].y

\* two calls agree in every argument except the font-size argument
SameButSize(a, b) ==
  /\ a.text = b.text /\ a.fontFamily = b.fontFamily /\ a.orientation = b.orientation

\* C29: the font-size argument of fitText is ignored: the first candidate of
\* every call is built at the configured baseFontSize, and two calls that
\* differ only in that argument return identical layouts.
C29_FontSizeArgumentIgnored ==
  /\ (Returned /\ tried # <<>>) => tried[1].fontSize = engine.config.baseFontSize
  /\ (pc = "done" /\ ~IsNull(ref) /\ SameButSize(ref.args, args)) => result = ref.result

\* a call whose font-size argument is not baseFontSize returned a layout found
\* after more than one attempt, equal in all but that argument to a remembered call
C29_Witness ==
  /\ Returned /\ ~IsNull(ref) /\ SameButSize(ref.args, args)
  /\ args.ignoredFontSize # ref.args.ignoredFontSize
  /\ args.ignoredFontSize # engine.config.baseFontSize
  /\ Len(tried) >= 2

\* the returned layout is the candidate the loop accepted as fitting
AcceptedAsFit == Returned /\ tried # <<>> /\ tried[Len(tried)].fits

\* C30: every Position of a returned horizontal layout that was accepted as a
\* fit lies horizontally inside the text area, whatever font family the
\* caller passed.
C30_PositionsInsideTextArea ==
  (AcceptedAsFit /\ args.orientation = "horizontal") =>
    \A i \in 1..Len(result.positions) :
      /\ result.textArea.x <= result.positions[i].x
      /\ result.positions[i].x + result.positions[i].width
           <= result.textArea.x + result.textArea.width

\* C31: a returned vertical layout that was accepted as a fit has one Position
\* per character of the normalized column, all at x = textArea.x +
\* textArea.width / 2 + 45, the first at y = textArea.y + fontSize * 0.85 and
\* each next one lineHeight * charSpacingMultiplier lower, and no position's y
\* is beyond textArea.y + textArea.height.
C31_VerticalColumnInsideArea ==
  (AcceptedAsFit /\ args.orientation = "vertical") =>
    /\ Len(result.lines) = 1
    /\ Len(result.positions) = Len(result.lines[1])
    /\ \A i \in 1..Len(result.positions) :
         /\ result.positions[i].line = <<result.lines[1][i]>>
         /\ result.positions[i].x =
              result.textArea.x + result.textArea.width \div 2 + Px(45)
         /\ result.positions[i].y =
              result.textArea.y + result.fontSize * 850
                + (i - 1) * ((result.lineHeight * engine.config.verticalSpacing.charSpacingMultiplier) \div 1000)
         /\ result.positions[i].y <= result.textArea.y + result.textArea.height

\* a column of several characters was accepted below the base size: it fills
\* the area so nearly that one more character would not fit
C31_Witness ==
  /\ AcceptedAsFit /\ args.orientation = "vertical"
  /\ Len(result.positions) >= 2
  /\ result.fontSize < baseFontSize
  /\ result.positions[Len(result.positions)].y > result.positions[1].y

\* C32: cleanTextForVertical is idempotent, and its output has as many
\* characters as its input has characters that are not whitespace.
C32_CleanerIdempotent ==
  CleanerCalled =>
    /\ cleanTextForVertical(probe.out) = probe.out
    /\ Len(probe.out) = CharacterCount(probe.text)

\* a text with two whitespace runs and hyphen-like characters was normalized
\* to a shorter string
C32_Witness ==
  /\ CleanerCalled
  /\ Cardinality({i \in 2..Len(probe.text) : IsSpace(probe.text[i]) /\ ~IsSpace(probe.text[i - 1])}) >= 2
  /\ \E i \in 1..Len(probe.text) : IsHyphenLike(probe.text[i])
  /\ Len(probe.out) < Len(probe.text)

\* C39: the bootstrap invokes start() at most once, and never once the timeout
\* or the script's error event has resolved the wait.
C39_StartAtMostOnce ==
  /\ boot.started <= 1
  /\ ~boot.ranAfterGivingUp
  /\ boot.gaveUp => boot.started = 0

\* start() ran from one of the load event, a polling tick and DOMContentLoaded,
\* and the others were delivered afterwards
C39_Witness ==
  /\ boot.started = 1 /\ boot.tag = "loaded" /\ boot.readyState = "interactive"
  /\ ~boot.interval /\ boot.lastTick > 0
  /\ ~boot.loadListener /\ ~boot.domListener

\* C39, second case: the wait timed out, the engine appeared later, and later
\* checks did not start the designer
C39_WitnessTimedOut ==
  /\ boot.gaveUp /\ boot.elapsed > maxMs /\ boot.hasEngine
  /\ boot.tag = "loaded" /\ ~boot.interval /\ boot.started = 0

\* C40: once the designer has been started and 'designer:ready' dispatched,
\* the promise window.designerReady is eventually resolved.
C40_ReadyPromiseResolved ==
  boot.readyDispatched ~> (boot.designerReady = "resolved")

\* the page has a designer
HasDesigner == ~IsNull(state)

\* the add-to-cart form was submitted and the dispatch of the event has just ended
Submitted == ~IsNull(submitted)

\* the translation requests in flight
Fetches == {t \in tasks : t.kind = "fetch"}

\* C33: a submit of the add-to-cart form while hasTranslation is false has
\* its default prevented before the event's dispatch ends, and the error
\* 'Please translate your text before adding to cart.' is shown, in every state
\* of the designer.
C33_SubmitWithoutTranslationCancelled ==
  (Submitted /\ ~submitted.hasTranslation) =>
    /\ submitted.prevented
    /\ els.error = "Please translate your text before adding to cart."

\* C34: when the form is submitted with hasTranslation true, the submission
\* proceeds with the three hidden inputs _design_params, _preview_data_url and
\* _preview_mockup_url present and written from the designer's current state,
\* also when the shirt image has not finished loading.
C34_HiddenInputsFreshAtSubmit ==
  (Submitted /\ submitted.hasTranslation) =>
    /\ ~submitted.prevented
    /\ submitted.designParams = DesignParams(W)
    /\ submitted.previewDataUrl = els.canvas
    /\ submitted.previewMockupUrl # Absent
    /\ submitted.previewMockupUrl.overlay = els.canvas

\* C35: whenever hasTranslation is true, translatedText is the translation of
\* the current originalText.
C35_TranslationMatchesText ==
  (HasDesigner /\ state.hasTranslation) =>
    state.translatedText = Translation(Trim(state.originalText))

\* C36: at most one translation request is in flight, and while isTranslating
\* is true no step issues a request.
C36_OneRequestInFlight ==
  /\ [](Cardinality(Fetches) <= 1)
  /\ [][state.isTranslating => Fetches' \subseteq Fetches]_vars

\* a request is in flight and the text was edited to another translatable text
\* meanwhile, so that only isTranslating keeps a trigger from issuing a second one
C36_Witness ==
  /\ state.isTranslating /\ Cardinality(Fetches) = 1
  /\ Trim(state.originalText) # <<>>
  /\ \A t \in Fetches : t.text # Trim(state.originalText)

\* C37: every translation attempt that was started eventually ends with
\* isTranslating false; a step in which an attempt fails leaves hasTranslation
\* false and translatedText unchanged.
C37_TranslationAttemptEnds ==
  /\ state.isTranslating ~> ~state.isTranslating
  /\ [][(Fetches # {} /\ Fetches' = {} /\ Task("translateFrame") \notin tasks')
          => (~state'.hasTranslation /\ state'.translatedText = state.translatedText)]_vars

\* C38: while the selected variant is one reported unavailable, the
\* add-to-cart button is disabled.
C38_UnavailableStaysDisabled ==
  (HasDesigner /\ ~IsNull(state.selectedVariant) /\ ~state.selectedVariant.available) =>
    els.cartDisabled

====
